---- MODULE Spec2Model ----
(***************************************************************************)
(* Metric normalisation and ratio decomposition of the benchmark plotting  *)
(* scripts (scripts/paper_plots.py, scripts/visualize_batch_size.py,       *)
(* scripts/presentation_plots.py).                                         *)
(*                                                                         *)
(* A benchmark record is a Python dict; it is modelled as a TLA+ function  *)
(* from its keys (strings) to its values, so that `method in r` is         *)
(* `method \in DOMAIN r`.  A Python float that results from a division of  *)
(* two integers is modelled as the exact rational <<num, den>> in lowest   *)
(* terms.  A call that raises (KeyError, ZeroDivisionError) returns no     *)
(* value: its result has raised = TRUE and empty sequences.                *)
(***************************************************************************)
EXTENDS Integers, Sequences, FiniteSets, TLC

VARIABLES results, call, ret, frames, train, files

vars == <<results, call, ret, frames, train, files>>

(***************************************************************************)
(* Bounds and input domains                                                *)
(***************************************************************************)

\* The largest number of records in an input collection.
MaxRecords == 2

Datasets == {"d1", "d2"}

BatchSizes == {100, 1000}

Methods == {"zstd", "openzl"}

TimeTypes == {"compression", "decompression"}

\* The three row-oriented reference encodings.
ReferenceFamilies == {"otlp_metrics", "otlp_traces", "tpch_proto"}

(***************************************************************************)
(* Exact rational arithmetic for Python's true division                    *)
(***************************************************************************)

RECURSIVE GCD(_, _)
GCD(a, b) == IF b = 0 THEN a ELSE GCD(b, a % b)

\* n / d for integers n >= 0, d > 0, in lowest terms.
Rat(n, d) == LET g == GCD(n, d) IN <<n \div g, d \div g>>

RatMul(x, y) == Rat(x[1] * y[1], x[2] * y[2])

RatDiv(x, y) == Rat(x[1] * y[2], x[2] * y[1])

One == <<1, 1>>

\* An integer or stored float v as a rational.
ToRat(v) == IF v \in Int THEN <<v, 1>> ELSE v

(***************************************************************************)
(* Records                                                                 *)
(***************************************************************************)

\* One AlgorithmResult: r["zstd"] or r["openzl"].
Stats(avg, std, thr, thrstd) ==
    [avg_ms |-> avg, std_ms |-> std, throughput_mbps |-> thr,
     throughput_std_mbps |-> thrstd]

AlgorithmResult(bytes, ratio, avg, thr) ==
    [total_bytes |-> bytes, compression_ratio |-> ratio,
     compression |-> Stats(avg, 1, thr, 3),
     decompression |-> Stats(avg + 1, 2, thr + 100, 5)]

\* A method key of a record: absent, present with one of vals, or either.
Absent == {<<>>}

Present(key, vals) == {key :> v : v \in vals}

Optional(key, vals) == Absent \cup Present(key, vals)

\* The records with the four structural keys drawn from the given sets, the
\* "zstd" key drawn from zs and the "openzl" key from os.
Records(ds, cs, bs, ubs, zs, os) ==
    {b @@ z @@ o :
        b \in [dataset : ds, compressor : cs, batch_size : bs,
               total_uncompressed_bytes : ubs],
        z \in zs, o \in os}

SeqsUpTo(S, n) == UNION {[1..k -> S] : k \in 0..n}

(***************************************************************************)
(* Python helpers                                                          *)
(***************************************************************************)

\* list.sort(key=lambda x: x["batch_size"]): stable, ascending.
RECURSIVE insert_by_batch_size(_, _)
insert_by_batch_size(s, r) ==
    IF s = <<>> THEN <<r>>
    ELSE IF s[Len(s)].batch_size <= r.batch_size THEN Append(s, r)
    ELSE Append(insert_by_batch_size(SubSeq(s, 1, Len(s) - 1), r), s[Len(s)])

\* Mutant: the sort is left out.
sort_by_batch_size_skipped(s) == s

\* Mutant: records of equal batch size come out in reverse input order.
RECURSIVE sort_by_batch_size_ties_reversed(_)
sort_by_batch_size_ties_reversed(s) ==
    IF s = <<>> THEN <<>>
    ELSE insert_by_batch_size(sort_by_batch_size_ties_reversed(Tail(s)), Head(s))

RECURSIVE sort_by_batch_size(_)
sort_by_batch_size(s) ==
    IF s = <<>> THEN <<>>
    ELSE insert_by_batch_size(sort_by_batch_size(SubSeq(s, 1, Len(s) - 1)),
                              s[Len(s)])

\* d[k] = v on a dict d.
DictSet(d, k, v) == [x \in DOMAIN d \cup {k} |-> IF x = k THEN v ELSE d[x]]

\* baseline = {}; for r in refs: baseline[r["batch_size"]] = r[...bytes]
RECURSIVE baseline_of(_)
baseline_of(refs) ==
    IF refs = <<>> THEN <<>>
    ELSE DictSet(baseline_of(SubSeq(refs, 1, Len(refs) - 1)),
                 refs[Len(refs)].batch_size,
                 refs[Len(refs)].total_uncompressed_bytes)

\* Mutant: the dataset test of the filter is forgotten.
filtered_sorted_any_dataset(rs, dataset, compressor) ==
    sort_by_batch_size(SelectSeq(rs, LAMBDA r : r.compressor = compressor))

\* [r for r in results if r["dataset"] == dataset and r["compressor"] == compressor]
\* followed by filtered.sort(key=batch_size)
filtered_sorted(rs, dataset, compressor) ==
    sort_by_batch_size(
        SelectSeq(rs, LAMBDA r : r.dataset = dataset /\ r.compressor = compressor))

\* What a call returns.
Returned(bs, vs, ss) ==
    [raised |-> FALSE, batch_sizes |-> bs, values |-> vs, stds |-> ss]

Raised == [raised |-> TRUE, batch_sizes |-> <<>>, values |-> <<>>, stds |-> <<>>]

Column(pts, F(_)) == [i \in 1..Len(pts) |-> F(pts[i])]

(***************************************************************************)
(* scripts/paper_plots.py                                                  *)
(***************************************************************************)

\* Mutant: records of any compressor enter the baseline table.
get_proto_baseline_any_compressor(rs, dataset) ==
    baseline_of(SelectSeq(rs, LAMBDA r : r.dataset = dataset))

get_proto_baseline(rs, dataset) ==
    baseline_of(SelectSeq(rs, LAMBDA r :
        r.dataset = dataset /\ r.compressor \in ReferenceFamilies))

\* Mutant: the quotient is inverted.
format_efficiency_value_inverted(baseline, r) ==
    Rat(r.total_uncompressed_bytes, baseline[r.batch_size])

format_efficiency_value(baseline, r) ==
    Rat(baseline[r.batch_size], r.total_uncompressed_bytes)

\* Mutant: the baseline table of another dataset is used when the dataset
\* has none.
extract_format_efficiency_series_leaky(rs, dataset, compressor) ==
    LET baseline == baseline_of(SelectSeq(rs, LAMBDA r :
                        r.compressor \in ReferenceFamilies))
        pts == SelectSeq(filtered_sorted(rs, dataset, compressor),
                         LAMBDA r : r.batch_size \in DOMAIN baseline)
    IN  IF DOMAIN baseline = {} THEN Returned(<<>>, <<>>, <<>>)
        ELSE IF \E i \in 1..Len(pts) : pts[i].total_uncompressed_bytes = 0
        THEN Raised
        ELSE Returned(Column(pts, LAMBDA r : r.batch_size),
                      Column(pts, LAMBDA r :
                          Rat(baseline[r.batch_size], r.total_uncompressed_bytes)),
                      <<>>)

extract_format_efficiency_series(rs, dataset, compressor) ==
    LET baseline == get_proto_baseline(rs, dataset)
        pts == SelectSeq(filtered_sorted(rs, dataset, compressor),
                         LAMBDA r : r.batch_size \in DOMAIN baseline)
    IN  IF DOMAIN baseline = {} THEN Returned(<<>>, <<>>, <<>>)
        ELSE IF \E i \in 1..Len(pts) : pts[i].total_uncompressed_bytes = 0
        THEN Raised
        ELSE Returned(Column(pts, LAMBDA r : r.batch_size),
                      Column(pts, LAMBDA r : format_efficiency_value(baseline, r)),
                      <<>>)

\* Mutant: the stored ratio is emitted instead of the quotient.
algorithm_effectiveness_value_stored(r, method) == r[method].compression_ratio

algorithm_effectiveness_value(r, method) ==
    Rat(r.total_uncompressed_bytes, r[method].total_bytes)

extract_algorithm_effectiveness_series(rs, dataset, compressor, method) ==
    LET pts == SelectSeq(filtered_sorted(rs, dataset, compressor),
                         LAMBDA r : method \in DOMAIN r)
    IN  IF \E i \in 1..Len(pts) : pts[i][method].total_bytes = 0
        THEN Raised
        ELSE Returned(Column(pts, LAMBDA r : r.batch_size),
                      Column(pts, LAMBDA r : algorithm_effectiveness_value(r, method)),
                      <<>>)

\* Mutant: the record's own bytes are divided instead of the baseline's.
final_cr_value_own_bytes(baseline, r, method) ==
    Rat(r.total_uncompressed_bytes, r[method].total_bytes)

final_cr_value(baseline, r, method) ==
    Rat(baseline[r.batch_size], r[method].total_bytes)

extract_final_cr_series(rs, dataset, compressor, method) ==
    LET baseline == get_proto_baseline(rs, dataset)
        pts == SelectSeq(filtered_sorted(rs, dataset, compressor),
                         LAMBDA r : r.batch_size \in DOMAIN baseline
                                    /\ method \in DOMAIN r)
    IN  IF DOMAIN baseline = {} THEN Returned(<<>>, <<>>, <<>>)
        ELSE IF \E i \in 1..Len(pts) : pts[i][method].total_bytes = 0
        THEN Raised
        ELSE Returned(Column(pts, LAMBDA r : r.batch_size),
                      Column(pts, LAMBDA r : final_cr_value(baseline, r, method)),
                      <<>>)

\* The five OTAP variants and the three Arrow variants of lines 94-100, 118.
PaperOtapVariants ==
    {"otap", "otapnodict", "otapdictperfile", "otapnosort", "otapnodedup"}

ArrowVariants == {"arrow", "arrownodict", "arrowdictperfile"}

\* Mutant: the record's own bytes are divided instead of the baseline's.
ratio_against_own_bytes(baseline, filtered, method) ==
    LET pts == SelectSeq(filtered, LAMBDA r :
                   r.batch_size \in DOMAIN baseline /\ method \in DOMAIN r)
    IN  IF \E i \in 1..Len(pts) : pts[i][method].total_bytes = 0
        THEN Raised
        ELSE Returned(Column(pts, LAMBDA r : r.batch_size),
                      Column(pts, LAMBDA r :
                          Rat(r.total_uncompressed_bytes, r[method].total_bytes)),
                      <<>>)

\* The loop of lines 111-115 and 126-130: ratio against a baseline table.
ratio_against(baseline, filtered, method) ==
    LET pts == SelectSeq(filtered, LAMBDA r :
                   r.batch_size \in DOMAIN baseline /\ method \in DOMAIN r)
    IN  IF \E i \in 1..Len(pts) : pts[i][method].total_bytes = 0
        THEN Raised
        ELSE Returned(Column(pts, LAMBDA r : r.batch_size),
                      Column(pts, LAMBDA r :
                          Rat(baseline[r.batch_size], r[method].total_bytes)),
                      <<>>)

\* Mutant: the ratio of every variant, reference families included, is taken
\* against the baseline table.
extract_compression_ratio_series_all_baselined(rs, dataset, compressor, method) ==
    ratio_against(get_proto_baseline(rs, dataset),
                  filtered_sorted(rs, dataset, compressor), method)

extract_compression_ratio_series(rs, dataset, compressor, method) ==
    LET filtered == filtered_sorted(rs, dataset, compressor)
    IN  IF compressor \in PaperOtapVariants
        THEN ratio_against(
                 baseline_of(SelectSeq(rs, LAMBDA r : r.dataset = dataset
                     /\ r.compressor \in {"otlp_metrics", "otlp_traces"})),
                 filtered, method)
        ELSE IF compressor \in ArrowVariants
        THEN ratio_against(
                 baseline_of(SelectSeq(rs, LAMBDA r : r.dataset = dataset
                     /\ r.compressor = "tpch_proto")),
                 filtered, method)
        ELSE LET pts == SelectSeq(filtered, LAMBDA r : method \in DOMAIN r)
             IN  Returned(Column(pts, LAMBDA r : r.batch_size),
                          Column(pts, LAMBDA r : r[method].compression_ratio),
                          <<>>)

\* Mutant: the throughput is not rescaled.
speed_scale_identity(baseline, r) == One

\* Mutant: a record of 0 bytes is scaled as a record of 1 byte.
speed_scale_floor_one(baseline, r) ==
    Rat(baseline[r.batch_size],
        IF r.total_uncompressed_bytes > 0 THEN r.total_uncompressed_bytes ELSE 1)

\* scale = baseline[bs] / format_bytes if format_bytes > 0 else 1.0
speed_scale(baseline, r) ==
    IF r.total_uncompressed_bytes > 0
    THEN Rat(baseline[r.batch_size], r.total_uncompressed_bytes)
    ELSE One

extract_speed_series(rs, dataset, compressor, method, time_type) ==
    LET baseline == get_proto_baseline(rs, dataset)
        pts == SelectSeq(filtered_sorted(rs, dataset, compressor), LAMBDA r :
                   r.batch_size \in DOMAIN baseline /\ method \in DOMAIN r)
    IN  Returned(Column(pts, LAMBDA r : r.batch_size),
                 Column(pts, LAMBDA r :
                     RatMul(ToRat(r[method][time_type].throughput_mbps),
                            speed_scale(baseline, r))),
                 Column(pts, LAMBDA r :
                     RatMul(ToRat(r[method][time_type].throughput_std_mbps),
                            speed_scale(baseline, r))))

extract_time_series(rs, dataset, compressor, method, time_type) ==
    LET pts == SelectSeq(filtered_sorted(rs, dataset, compressor),
                         LAMBDA r : method \in DOMAIN r)
    IN  Returned(Column(pts, LAMBDA r : r.batch_size),
                 Column(pts, LAMBDA r : r[method][time_type].avg_ms),
                 Column(pts, LAMBDA r : r[method][time_type].std_ms))

(***************************************************************************)
(* scripts/visualize_batch_size.py                                         *)
(***************************************************************************)

\* grouped[dataset] for each dataset of the collection, in input order.
group_by_dataset(rs) ==
    [d \in {rs[i].dataset : i \in 1..Len(rs)} |->
        SelectSeq(rs, LAMBDA r : r.dataset = d)]

\* filtered = [r for r in dataset_results if r["compressor"] == compressor]
\* followed by filtered.sort(key=batch_size)
viz_filtered_sorted(dataset_results, compressor) ==
    sort_by_batch_size(
        SelectSeq(dataset_results, LAMBDA r : r.compressor = compressor))

VizOtlpBaselined ==
    {"otap", "otapnodict", "otapdictperfile", "otlpmetricsdict", "otlptracesdict"}

\* The loops of lines 70-79 and 90-99; method may be "raw".
viz_ratio_against(baseline, filtered, method) ==
    LET pts == SelectSeq(filtered, LAMBDA r : r.batch_size \in DOMAIN baseline)
    IN  IF method = "raw"
        THEN IF \E i \in 1..Len(pts) : pts[i].total_uncompressed_bytes = 0
             THEN Raised
             ELSE Returned(Column(pts, LAMBDA r : r.batch_size),
                           Column(pts, LAMBDA r : Rat(baseline[r.batch_size],
                                                  r.total_uncompressed_bytes)),
                           <<>>)
        ELSE IF \E i \in 1..Len(pts) : method \notin DOMAIN pts[i]
        THEN Raised
        ELSE IF \E i \in 1..Len(pts) : pts[i][method].total_bytes = 0
        THEN Raised
        ELSE Returned(Column(pts, LAMBDA r : r.batch_size),
                      Column(pts, LAMBDA r : Rat(baseline[r.batch_size],
                                                 r[method].total_bytes)),
                      <<>>)

viz_extract_compression_ratio_series(dataset_results, compressor, method) ==
    LET filtered == viz_filtered_sorted(dataset_results, compressor)
    IN  IF compressor \in VizOtlpBaselined
        THEN viz_ratio_against(
                 baseline_of(SelectSeq(dataset_results, LAMBDA r :
                     r.compressor \in {"otlp_metrics", "otlp_traces"})),
                 filtered, method)
        ELSE IF compressor \in ArrowVariants
        THEN viz_ratio_against(
                 baseline_of(SelectSeq(dataset_results, LAMBDA r :
                     r.compressor = "tpch_proto")),
                 filtered, method)
        ELSE IF \E i \in 1..Len(filtered) : method \notin DOMAIN filtered[i]
        THEN Raised
        ELSE Returned(Column(filtered, LAMBDA r : r.batch_size),
                      Column(filtered, LAMBDA r : r[method].compression_ratio),
                      <<>>)

viz_extract_time_series(dataset_results, compressor, method, time_type) ==
    LET filtered == viz_filtered_sorted(dataset_results, compressor)
    IN  IF \E i \in 1..Len(filtered) : method \notin DOMAIN filtered[i]
        THEN Raised
        ELSE Returned(Column(filtered, LAMBDA r : r.batch_size),
                      Column(filtered, LAMBDA r : r[method][time_type].avg_ms),
                      Column(filtered, LAMBDA r : r[method][time_type].std_ms))

viz_extract_throughput_series(dataset_results, compressor, method, time_type) ==
    LET filtered == viz_filtered_sorted(dataset_results, compressor)
    IN  IF \E i \in 1..Len(filtered) : method \notin DOMAIN filtered[i]
        THEN Raised
        ELSE Returned(Column(filtered, LAMBDA r : r.batch_size),
                      Column(filtered, LAMBDA r :
                          r[method][time_type].throughput_mbps),
                      Column(filtered, LAMBDA r :
                          r[method][time_type].throughput_std_mbps))

\* baseline_bytes of lines 194-202 for a record that is not skipped.
e2e_baseline_bytes(baseline_by_batch, r) ==
    IF r.batch_size \in DOMAIN baseline_by_batch
    THEN baseline_by_batch[r.batch_size]
    ELSE r.total_uncompressed_bytes

viz_extract_e2e_speed_series(dataset_results, compressor, method, time_type) ==
    LET filtered == viz_filtered_sorted(dataset_results, compressor)
        is_tpch == compressor \in {"tpch_proto"} \cup ArrowVariants
        baseline_by_batch ==
            baseline_of(SelectSeq(dataset_results, LAMBDA r :
                IF is_tpch THEN r.compressor = "tpch_proto"
                ELSE r.compressor \in {"otlp_metrics", "otlp_traces"}))
        \* the records the loop does not skip with `continue`
        kept == SelectSeq(filtered, LAMBDA r :
                    r.batch_size \in DOMAIN baseline_by_batch
                    \/ compressor \in ReferenceFamilies)
        pts == SelectSeq(kept, LAMBDA r :
                    method \in DOMAIN r /\ r[method][time_type].avg_ms > 0)
    IN  IF \E i \in 1..Len(kept) : method \notin DOMAIN kept[i]
        THEN Raised
        ELSE Returned(Column(pts, LAMBDA r : r.batch_size),
                      Column(pts, LAMBDA r :
                          Rat(e2e_baseline_bytes(baseline_by_batch, r),
                              r[method][time_type].avg_ms * 1000)),
                      <<>>)

(***************************************************************************)
(* scripts/presentation_plots.py                                           *)
(***************************************************************************)

\* None is <<>>, an integer v is <<v>>.
first_bytes(matching) ==
    IF matching = <<>> THEN <<>> ELSE <<matching[1].total_uncompressed_bytes>>

get_otlp_baseline_bytes(rs, dataset, batch_size) ==
    first_bytes(SelectSeq(rs, LAMBDA r :
        r.dataset = dataset /\ r.batch_size = batch_size
        /\ r.compressor \in {"otlp_metrics", "otlp_traces"}))

get_proto_baseline_bytes(rs, dataset, batch_size) ==
    first_bytes(SelectSeq(rs, LAMBDA r :
        r.dataset = dataset /\ r.batch_size = batch_size
        /\ r.compressor = "tpch_proto"))

BaselineFns == {"None", "get_otlp_baseline_bytes", "get_proto_baseline_bytes"}

baseline_fn_call(baseline_fn, rs, dataset, batch_size) ==
    IF baseline_fn = "get_otlp_baseline_bytes"
    THEN get_otlp_baseline_bytes(rs, dataset, batch_size)
    ELSE get_proto_baseline_bytes(rs, dataset, batch_size)

DataPoint(r, compression_type, ratio) ==
    [batch_size |-> r.batch_size,
     compression_ratio |-> ratio,
     compression_throughput |-> r[compression_type].compression.throughput_mbps,
     decompression_throughput |-> r[compression_type].decompression.throughput_mbps,
     uncompressed_bytes |-> r.total_uncompressed_bytes,
     compression_time_ms |-> r[compression_type].compression.avg_ms,
     decompression_time_ms |-> r[compression_type].decompression.avg_ms]

extract_series(rs, dataset, compressor, compression_type, baseline_fn) ==
    LET kept == SelectSeq(rs, LAMBDA r :
                    /\ r.dataset = dataset /\ r.compressor = compressor
                    /\ compression_type \in DOMAIN r
                    /\ (baseline_fn # "None" =>
                          baseline_fn_call(baseline_fn, rs, dataset,
                                           r.batch_size) # <<>>))
        ratio(r) ==
            IF baseline_fn # "None"
            THEN Rat(baseline_fn_call(baseline_fn, rs, dataset, r.batch_size)[1],
                     r[compression_type].total_bytes)
            ELSE r[compression_type].compression_ratio
        points == Column(kept, LAMBDA r : DataPoint(r, compression_type, ratio(r)))
    IN  IF baseline_fn # "None"
           /\ \E i \in 1..Len(kept) : kept[i][compression_type].total_bytes = 0
        THEN Raised
        ELSE LET sorted == sort_by_batch_size(points)
             IN  Returned(Column(sorted, LAMBDA p : p.batch_size),
                          Column(sorted, LAMBDA p : p.compression_ratio),
                          <<>>)

(***************************************************************************)
(* Series assembly: the plotters                                           *)
(***************************************************************************)

Config(compressor, method, label) ==
    [compressor |-> compressor, method |-> method, label |-> label]

\* paper_plots.py: colour, marker and line style are left out.
get_series_configs_otel ==
    << Config("otlp_metrics", "openzl", "Proto + OpenZL"),
       Config("otlp_traces", "openzl", "Proto + OpenZL"),
       Config("otlp_metrics", "zstd", "Proto + zstd"),
       Config("otlp_traces", "zstd", "Proto + zstd"),
       Config("otap", "zstd", "Arrow + zstd"),
       Config("otapdictperfile", "zstd", "Arrow (-delta dict)"),
       Config("otapnodedup", "zstd", "Arrow (-column dedup)"),
       Config("otapnosort", "zstd", "Arrow (-sort)"),
       Config("otapnodict", "zstd", "Arrow (-dict)") >>

get_series_configs_tpch ==
    << Config("tpch_proto", "openzl", "Proto + OpenZL"),
       Config("tpch_proto", "zstd", "Proto + zstd"),
       Config("arrow", "zstd", "Arrow + zstd"),
       Config("arrownodict", "zstd", "Arrow (-dict)") >>

\* visualize_batch_size.py
get_series_configs ==
    << Config("otlp_metrics", "openzl", "OTLP + OpenZL"),
       Config("otlp_traces", "openzl", "OTLP + OpenZL"),
       Config("otlpmetricsdict", "openzl", "OTLP (dict) + OpenZL"),
       Config("otlptracesdict", "openzl", "OTLP (dict) + OpenZL"),
       Config("tpch_proto", "openzl", "Proto + OpenZL"),
       Config("otlp_metrics", "zstd", "OTLP + zstd"),
       Config("otlp_traces", "zstd", "OTLP + zstd"),
       Config("otlpmetricsdict", "zstd", "OTLP (dict) + zstd"),
       Config("otlptracesdict", "zstd", "OTLP (dict) + zstd"),
       Config("tpch_proto", "zstd", "Proto + zstd"),
       Config("otap", "zstd", "OTAP (delta dict) + zstd"),
       Config("otapnodict", "zstd", "OTAP (no dict) + zstd"),
       Config("otapdictperfile", "zstd", "OTAP (dict/batch) + zstd"),
       Config("arrow", "zstd", "Arrow (delta dict) + zstd"),
       Config("arrownodict", "zstd", "Arrow (no dict) + zstd"),
       Config("arrowdictperfile", "zstd", "Arrow (dict/batch) + zstd") >>

get_compression_ratio_series_configs == get_series_configs

\* One ax.plot / ax.errorbar call.
Line(label, series) ==
    [label |-> label, batch_sizes |-> series.batch_sizes,
     values |-> series.values]

Plotted(lines) == [raised |-> FALSE, lines |-> lines]

PlotRaised == [raised |-> TRUE, lines |-> <<>>]

\* The loop body `if batch_sizes: ax.plot(...)` over the first n configs; series[i] is
\* what the extraction returned for configs[i].
RECURSIVE lines_every_config(_, _, _)
lines_every_config(configs, series, n) ==
    IF n = 0 THEN <<>>
    ELSE LET prev == lines_every_config(configs, series, n - 1)
         IN  IF series[n].batch_sizes # <<>>
             THEN Append(prev, Line(configs[n].label, series[n]))
             ELSE prev

\* Mutant: a config reserves its label even when its series is empty.
lines_reserving_label(configs, series, n) ==
    LET keep(i) == /\ series[i].batch_sizes # <<>>
                   /\ \A k \in 1..(i - 1) : configs[k].label # configs[i].label
        kept == SelectSeq([i \in 1..n |-> i], keep)
    IN  [k \in 1..Len(kept) |-> Line(configs[kept[k]].label, series[kept[k]])]

\* Mutant: the label is not looked up in plotted_labels.
lines_without_label_check(configs, series, n) ==
    lines_every_config(configs, series, n)

\* The loop body `if batch_sizes and label not in plotted_labels: ax.plot(...);
\* plotted_labels.add(label)` over the first n configs.
RECURSIVE lines_first_label(_, _, _)
lines_first_label(configs, series, n) ==
    IF n = 0 THEN <<>>
    ELSE LET prev == lines_first_label(configs, series, n - 1)
             plotted_labels == {prev[j].label : j \in 1..Len(prev)}
         IN  IF series[n].batch_sizes # <<>>
                /\ configs[n].label \notin plotted_labels
             THEN Append(prev, Line(configs[n].label, series[n]))
             ELSE prev

\* A plotter of paper_plots.py: one extraction per config, then the loop body.
paper_plot(configs, series) ==
    IF \E i \in 1..Len(configs) : series[i].raised THEN PlotRaised
    ELSE Plotted(lines_first_label(configs, series, Len(configs)))

\* A plotter of visualize_batch_size.py.
viz_plot(configs, series) ==
    IF \E i \in 1..Len(configs) : series[i].raised THEN PlotRaised
    ELSE Plotted(lines_every_config(configs, series, Len(configs)))

plot_dataset_compression_ratio(rs, dataset, configs) ==
    paper_plot(configs, Column(configs, LAMBDA c :
        extract_compression_ratio_series(rs, dataset, c.compressor, c.method)))

plot_dataset_speed(rs, dataset, configs, time_type) ==
    paper_plot(configs, Column(configs, LAMBDA c :
        extract_speed_series(rs, dataset, c.compressor, c.method, time_type)))

plot_dataset_time(rs, dataset, configs, time_type) ==
    paper_plot(configs, Column(configs, LAMBDA c :
        extract_time_series(rs, dataset, c.compressor, c.method, time_type)))

MetricTypes == {"format_efficiency", "algorithm_effectiveness", "final_cr"}

plot_cr_decomposition(rs, dataset, configs, metric_type) ==
    paper_plot(configs, Column(configs, LAMBDA c :
        IF metric_type = "format_efficiency"
        THEN extract_format_efficiency_series(rs, dataset, c.compressor)
        ELSE IF metric_type = "algorithm_effectiveness"
        THEN extract_algorithm_effectiveness_series(rs, dataset, c.compressor,
                                                    c.method)
        ELSE extract_final_cr_series(rs, dataset, c.compressor, c.method)))

plot_compression_ratio(dataset_results) ==
    viz_plot(get_compression_ratio_series_configs,
        Column(get_compression_ratio_series_configs, LAMBDA c :
            viz_extract_compression_ratio_series(dataset_results, c.compressor,
                                                 c.method)))

plot_time(dataset_results, time_type) ==
    viz_plot(get_series_configs, Column(get_series_configs, LAMBDA c :
        viz_extract_time_series(dataset_results, c.compressor, c.method,
                                time_type)))

plot_speed(dataset_results, time_type) ==
    viz_plot(get_series_configs, Column(get_series_configs, LAMBDA c :
        viz_extract_e2e_speed_series(dataset_results, c.compressor, c.method,
                                     time_type)))

plot_throughput(dataset_results, time_type) ==
    viz_plot(get_series_configs, Column(get_series_configs, LAMBDA c :
        viz_extract_throughput_series(dataset_results, c.compressor, c.method,
                                      time_type)))

(***************************************************************************)
(* State machine: the loaded collection, the call made on it, its result.  *)
(* The functions keep no state between calls, so a behaviour is one call   *)
(* on a loaded collection.                                                 *)
(***************************************************************************)

NoCall == [fn |-> "none", dataset |-> "-", compressor |-> "-", method |-> "-",
           time_type |-> "-", arg |-> "-"]

Call(fn, dataset, compressor, method, time_type, arg) ==
    [fn |-> fn, dataset |-> dataset, compressor |-> compressor,
     method |-> method, time_type |-> time_type, arg |-> arg]

Idle == call = NoCall

\* The compressor names a caller passes: the reference families, variants
\* every extractor treats as derived (otap, arrow), one only paper_plots
\* does (otapnosort) and one only visualize_batch_size does (otlpmetricsdict).
Compressors ==
    {"otlp_metrics", "otlp_traces", "tpch_proto", "otap", "arrow",
     "otapnosort", "otlpmetricsdict"}

\* Records of the ratio decomposition.  Scenario A of the specification's
\* section 8 lies in this set: a reference of 1000 bytes compressed to 250
\* and a derived record of 800 bytes compressed to 200.
Zstd200 == AlgorithmResult(200, <<4, 1>>, 2, 400)

Zstd250 == AlgorithmResult(250, <<4, 1>>, 2, 400)

Openzl250 == AlgorithmResult(250, <<5, 1>>, 4, 250)

ZstdInstant == AlgorithmResult(200, <<5, 1>>, 0, 0)

DecompRecords ==
    Records({"d1"}, {"otlp_metrics", "otlp_traces", "otap"}, BatchSizes,
            {800, 1000}, Optional("zstd", {Zstd200}), Absent)
    \cup Records({"d1"}, {"otlp_metrics"}, {100}, {1000},
            Present("zstd", {Zstd250}), Absent)
    \cup Records({"d1"}, {"otlp_metrics", "otap"}, {100}, {0},
            Present("zstd", {Zstd250}), Absent)
    \cup Records({"d2"}, {"otlp_metrics", "otap"}, {100}, {800},
            Optional("zstd", {Zstd200}), Absent)

\* Records of the metric extractors: every compressor name, both batch
\* sizes, a method present or absent, a second reference byte count, a
\* zero average time and a record of zero bytes.
SeriesRecords ==
    Records({"d1"}, {"otlp_metrics", "otap"}, BatchSizes, {1000},
            Optional("zstd", {Zstd200}), Absent)
    \cup Records({"d1"}, {"otapnosort", "otlpmetricsdict"}, BatchSizes, {1000},
            Present("zstd", {Zstd200}), Absent)
    \cup Records({"d1"}, {"tpch_proto", "arrow"}, BatchSizes, {1000},
            Absent, Present("openzl", {Openzl250}))
    \cup Records({"d1"}, {"otlp_metrics", "otlp_traces"}, {100}, {800},
            Present("zstd", {ZstdInstant}), Absent)
    \cup Records({"d1"}, {"otap"}, {100}, {0},
            Present("zstd", {Zstd250}), Absent)
    \cup Records({"d2"}, {"otlp_metrics", "otap"}, {100}, {800},
            Present("zstd", {Zstd200}), Absent)

\* Records of the plotters: two reference families and a derived variant in
\* one dataset, each method present or absent.
PlotRecords ==
    Records({"d1"}, {"otlp_metrics", "otlp_traces", "otap"}, BatchSizes, {1000},
            Optional("zstd", {Zstd200}), Optional("openzl", {Openzl250}))
    \cup Records({"d2"}, {"tpch_proto", "arrow"}, {100}, {800},
            Present("zstd", {Zstd200}), Absent)

\* No function has been called and no extraction is in progress.
NotCalled ==
    /\ call = NoCall /\ ret = Returned(<<>>, <<>>, <<>>) /\ frames = <<>>
    /\ train = <<>> /\ files = <<>>

Init == results \in SeqsUpTo(DecompRecords, MaxRecords) /\ NotCalled

InitSeries == results \in SeqsUpTo(SeriesRecords, MaxRecords) /\ NotCalled

InitPlot == results \in SeqsUpTo(PlotRecords, MaxRecords) /\ NotCalled

\* ---- paper_plots.py

GetProtoBaseline ==
    /\ Idle
    /\ \E d \in Datasets :
        /\ call' = Call("get_proto_baseline", d, "-", "-", "-", "-")
        /\ ret' = [raised |-> FALSE, baseline |-> get_proto_baseline(results, d)]
        /\ UNCHANGED <<results, frames, train, files>>

ExtractFormatEfficiencySeries ==
    /\ Idle
    /\ \E d \in Datasets, c \in Compressors :
        /\ call' = Call("extract_format_efficiency_series", d, c, "-", "-", "-")
        /\ ret' = extract_format_efficiency_series(results, d, c)
        /\ UNCHANGED <<results, frames, train, files>>

ExtractAlgorithmEffectivenessSeries ==
    /\ Idle
    /\ \E d \in Datasets, c \in Compressors, m \in Methods :
        /\ call' = Call("extract_algorithm_effectiveness_series", d, c, m, "-", "-")
        /\ ret' = extract_algorithm_effectiveness_series(results, d, c, m)
        /\ UNCHANGED <<results, frames, train, files>>

ExtractFinalCrSeries ==
    /\ Idle
    /\ \E d \in Datasets, c \in Compressors, m \in Methods :
        /\ call' = Call("extract_final_cr_series", d, c, m, "-", "-")
        /\ ret' = extract_final_cr_series(results, d, c, m)
        /\ UNCHANGED <<results, frames, train, files>>

ExtractCompressionRatioSeries ==
    /\ Idle
    /\ \E d \in Datasets, c \in Compressors, m \in Methods :
        /\ call' = Call("extract_compression_ratio_series", d, c, m, "-", "-")
        /\ ret' = extract_compression_ratio_series(results, d, c, m)
        /\ UNCHANGED <<results, frames, train, files>>

ExtractSpeedSeries ==
    /\ Idle
    /\ \E d \in Datasets, c \in Compressors, m \in Methods, t \in TimeTypes :
        /\ call' = Call("extract_speed_series", d, c, m, t, "-")
        /\ ret' = extract_speed_series(results, d, c, m, t)
        /\ UNCHANGED <<results, frames, train, files>>

ExtractTimeSeries ==
    /\ Idle
    /\ \E d \in Datasets, c \in Compressors, m \in Methods, t \in TimeTypes :
        /\ call' = Call("extract_time_series", d, c, m, t, "-")
        /\ ret' = extract_time_series(results, d, c, m, t)
        /\ UNCHANGED <<results, frames, train, files>>

\* ---- visualize_batch_size.py: main() passes grouped[dataset] of each
\* dataset of the collection.

VizExtractCompressionRatioSeries ==
    /\ Idle
    /\ \E d \in DOMAIN group_by_dataset(results), c \in Compressors,
       m \in Methods \cup {"raw"} :
        /\ call' = Call("viz_extract_compression_ratio_series", d, c, m, "-", "-")
        /\ ret' = viz_extract_compression_ratio_series(
                      group_by_dataset(results)[d], c, m)
        /\ UNCHANGED <<results, frames, train, files>>

VizExtractTimeSeries ==
    /\ Idle
    /\ \E d \in DOMAIN group_by_dataset(results), c \in Compressors,
       m \in Methods, t \in TimeTypes :
        /\ call' = Call("viz_extract_time_series", d, c, m, t, "-")
        /\ ret' = viz_extract_time_series(group_by_dataset(results)[d], c, m, t)
        /\ UNCHANGED <<results, frames, train, files>>

VizExtractThroughputSeries ==
    /\ Idle
    /\ \E d \in DOMAIN group_by_dataset(results), c \in Compressors,
       m \in Methods, t \in TimeTypes :
        /\ call' = Call("viz_extract_throughput_series", d, c, m, t, "-")
        /\ ret' = viz_extract_throughput_series(
                      group_by_dataset(results)[d], c, m, t)
        /\ UNCHANGED <<results, frames, train, files>>

VizExtractE2eSpeedSeries ==
    /\ Idle
    /\ \E d \in DOMAIN group_by_dataset(results), c \in Compressors,
       m \in Methods, t \in TimeTypes :
        /\ call' = Call("viz_extract_e2e_speed_series", d, c, m, t, "-")
        /\ ret' = viz_extract_e2e_speed_series(
                      group_by_dataset(results)[d], c, m, t)
        /\ UNCHANGED <<results, frames, train, files>>

\* ---- presentation_plots.py

GetOtlpBaselineBytes ==
    /\ Idle
    /\ \E d \in Datasets, b \in BatchSizes :
        /\ call' = Call("get_otlp_baseline_bytes", d, "-", "-", "-", b)
        /\ ret' = [raised |-> FALSE,
                   bytes |-> get_otlp_baseline_bytes(results, d, b)]
        /\ UNCHANGED <<results, frames, train, files>>

GetProtoBaselineBytes ==
    /\ Idle
    /\ \E d \in Datasets, b \in BatchSizes :
        /\ call' = Call("get_proto_baseline_bytes", d, "-", "-", "-", b)
        /\ ret' = [raised |-> FALSE,
                   bytes |-> get_proto_baseline_bytes(results, d, b)]
        /\ UNCHANGED <<results, frames, train, files>>

ExtractSeries ==
    /\ Idle
    /\ \E d \in Datasets, c \in Compressors, m \in Methods, f \in BaselineFns :
        /\ call' = Call("extract_series", d, c, m, "-", f)
        /\ ret' = extract_series(results, d, c, m, f)
        /\ UNCHANGED <<results, frames, train, files>>

\* ---- the plotters

PaperConfigs == {get_series_configs_otel, get_series_configs_tpch}

PlotDatasetCompressionRatio ==
    /\ Idle
    /\ \E d \in Datasets, cfg \in PaperConfigs :
        /\ call' = Call("plot_dataset_compression_ratio", d, "-", "-", "-", cfg)
        /\ ret' = plot_dataset_compression_ratio(results, d, cfg)
        /\ UNCHANGED <<results, frames, train, files>>

PlotDatasetSpeed ==
    /\ Idle
    /\ \E d \in Datasets, cfg \in PaperConfigs, t \in TimeTypes :
        /\ call' = Call("plot_dataset_speed", d, "-", "-", t, cfg)
        /\ ret' = plot_dataset_speed(results, d, cfg, t)
        /\ UNCHANGED <<results, frames, train, files>>

PlotDatasetTime ==
    /\ Idle
    /\ \E d \in Datasets, cfg \in PaperConfigs, t \in TimeTypes :
        /\ call' = Call("plot_dataset_time", d, "-", "-", t, cfg)
        /\ ret' = plot_dataset_time(results, d, cfg, t)
        /\ UNCHANGED <<results, frames, train, files>>

PlotCrDecomposition ==
    /\ Idle
    /\ \E d \in Datasets, cfg \in PaperConfigs, mt \in MetricTypes :
        /\ call' = Call("plot_cr_decomposition", d, "-", mt, "-", cfg)
        /\ ret' = plot_cr_decomposition(results, d, cfg, mt)
        /\ UNCHANGED <<results, frames, train, files>>

PlotCompressionRatio ==
    /\ Idle
    /\ \E d \in DOMAIN group_by_dataset(results) :
        /\ call' = Call("plot_compression_ratio", d, "-", "-", "-",
                        get_compression_ratio_series_configs)
        /\ ret' = plot_compression_ratio(group_by_dataset(results)[d])
        /\ UNCHANGED <<results, frames, train, files>>

PlotTime ==
    /\ Idle
    /\ \E d \in DOMAIN group_by_dataset(results), t \in TimeTypes :
        /\ call' = Call("plot_time", d, "-", "-", t, get_series_configs)
        /\ ret' = plot_time(group_by_dataset(results)[d], t)
        /\ UNCHANGED <<results, frames, train, files>>

PlotSpeed ==
    /\ Idle
    /\ \E d \in DOMAIN group_by_dataset(results), t \in TimeTypes :
        /\ call' = Call("plot_speed", d, "-", "-", t, get_series_configs)
        /\ ret' = plot_speed(group_by_dataset(results)[d], t)
        /\ UNCHANGED <<results, frames, train, files>>

PlotThroughput ==
    /\ Idle
    /\ \E d \in DOMAIN group_by_dataset(results), t \in TimeTypes :
        /\ call' = Call("plot_throughput", d, "-", "-", t, get_series_configs)
        /\ ret' = plot_throughput(group_by_dataset(results)[d], t)
        /\ UNCHANGED <<results, frames, train, files>>

\* The ratio decomposition over DecompRecords.
Next ==
    \/ GetProtoBaseline
    \/ ExtractFormatEfficiencySeries
    \/ ExtractAlgorithmEffectivenessSeries
    \/ ExtractFinalCrSeries

Spec == Init /\ [][Next]_vars

\* Every extractor and baseline lookup over SeriesRecords.
NextSeries ==
    \/ GetProtoBaseline
    \/ ExtractFormatEfficiencySeries
    \/ ExtractAlgorithmEffectivenessSeries
    \/ ExtractFinalCrSeries
    \/ ExtractCompressionRatioSeries
    \/ ExtractSpeedSeries
    \/ ExtractTimeSeries
    \/ VizExtractCompressionRatioSeries
    \/ VizExtractTimeSeries
    \/ VizExtractThroughputSeries
    \/ VizExtractE2eSpeedSeries
    \/ GetOtlpBaselineBytes
    \/ GetProtoBaselineBytes
    \/ ExtractSeries

SpecSeries == InitSeries /\ [][NextSeries]_vars

\* Every plotter over PlotRecords.
NextPlot ==
    \/ PlotDatasetCompressionRatio
    \/ PlotDatasetSpeed
    \/ PlotDatasetTime
    \/ PlotCrDecomposition
    \/ PlotCompressionRatio
    \/ PlotTime
    \/ PlotSpeed
    \/ PlotThroughput

SpecPlot == InitPlot /\ [][NextPlot]_vars

(***************************************************************************)
(* Properties                                                              *)
(***************************************************************************)

Indices(seq) == 1..Len(seq)

\* The records of rs that an extraction for (dataset, compressor) selects.
Matching(rs, dataset, compressor) ==
    {i \in Indices(rs) : rs[i].dataset = dataset /\ rs[i].compressor = compressor}

\* The reference-family records of a dataset.
References(rs, dataset) ==
    {i \in Indices(rs) :
        rs[i].dataset = dataset /\ rs[i].compressor \in ReferenceFamilies}

UniqueTriples(rs) ==
    \A i, j \in Indices(rs) :
        (/\ rs[i].dataset = rs[j].dataset
         /\ rs[i].batch_size = rs[j].batch_size
         /\ rs[i].compressor = rs[j].compressor) => i = j

PositiveBytes(rs) ==
    \A i \in Indices(rs) :
        /\ rs[i].total_uncompressed_bytes > 0
        /\ \A m \in Methods \cap DOMAIN rs[i] : rs[i][m].total_bytes > 0

\* At most one reference-family record of the dataset per batch size.
UniqueReferencePerBatch(rs, dataset) ==
    \A i, j \in References(rs, dataset) :
        rs[i].batch_size = rs[j].batch_size => i = j

\* Every point of the series at batch size bs has value v, and there is one.
PointAt(series, bs, v) ==
    /\ \E k \in Indices(series.batch_sizes) : series.batch_sizes[k] = bs
    /\ \A k \in Indices(series.batch_sizes) :
           series.batch_sizes[k] = bs => series.values[k] = v

\* C1: with unique (dataset, batch_size, compressor) triples and positive
\* byte counts, at every batch size that has a point in the format
\* efficiency, the algorithm effectiveness and the final CR series, the final
\* CR equals format efficiency times algorithm effectiveness, exactly.
C1_FinalIsProduct ==
    (/\ call.fn = "extract_final_cr_series"
     /\ UniqueTriples(results) /\ PositiveBytes(results))
    => LET fe == extract_format_efficiency_series(
                     results, call.dataset, call.compressor)
           ae == extract_algorithm_effectiveness_series(
                     results, call.dataset, call.compressor, call.method)
       IN  /\ ~ret.raised /\ ~fe.raised /\ ~ae.raised
           /\ \A i \in Indices(ret.batch_sizes), j \in Indices(fe.batch_sizes),
                 k \in Indices(ae.batch_sizes) :
                  (/\ ret.batch_sizes[i] = fe.batch_sizes[j]
                   /\ ret.batch_sizes[i] = ae.batch_sizes[k])
                  => ret.values[i] = RatMul(fe.values[j], ae.values[k])

\* A final CR point of a derived variant whose format efficiency is not 1.
C1_Witness ==
    /\ call.fn = "extract_final_cr_series"
    /\ UniqueTriples(results) /\ PositiveBytes(results)
    /\ call.compressor \notin ReferenceFamilies
    /\ ret.batch_sizes # <<>>
    /\ \E j \in Indices(extract_format_efficiency_series(
                    results, call.dataset, call.compressor).values) :
           extract_format_efficiency_series(
               results, call.dataset, call.compressor).values[j] # One

\* C2: for a derived record and the reference record of its dataset and
\* batch size, format efficiency = reference bytes / derived bytes, algorithm
\* effectiveness = derived bytes / derived compressed bytes, and final ratio
\* = reference bytes / derived compressed bytes.
C2_DecomposerValues ==
    \A i, j \in Indices(results) :
        (/\ results[i].compressor \in ReferenceFamilies
         /\ results[j].compressor \notin ReferenceFamilies
         /\ results[i].dataset = results[j].dataset
         /\ results[i].batch_size = results[j].batch_size
         /\ UniqueReferencePerBatch(results, results[j].dataset)
         /\ UniqueTriples(results)
         /\ call.dataset = results[j].dataset
         /\ call.compressor = results[j].compressor
         /\ ~ret.raised)
        => LET ref == results[i]
               own == results[j]
           IN  /\ call.fn = "extract_format_efficiency_series"
                  => PointAt(ret, own.batch_size,
                             Rat(ref.total_uncompressed_bytes,
                                 own.total_uncompressed_bytes))
               /\ (call.fn = "extract_algorithm_effectiveness_series"
                   /\ call.method \in DOMAIN own)
                  => PointAt(ret, own.batch_size,
                             Rat(own.total_uncompressed_bytes,
                                 own[call.method].total_bytes))
               /\ (call.fn = "extract_final_cr_series"
                   /\ call.method \in DOMAIN own)
                  => PointAt(ret, own.batch_size,
                             Rat(ref.total_uncompressed_bytes,
                                 own[call.method].total_bytes))

\* Scenario A: reference 1000 bytes, derived 800 bytes compressed to 200 give
\* format efficiency 5/4, algorithm effectiveness 4 and final ratio 5.
C2_Witness ==
    /\ call.fn = "extract_final_cr_series"
    /\ \E i, j \in Indices(results) :
           /\ results[i].compressor = "otlp_metrics"
           /\ results[i].total_uncompressed_bytes = 1000
           /\ results[j].compressor = "otap"
           /\ results[j].total_uncompressed_bytes = 800
           /\ "zstd" \in DOMAIN results[j]
           /\ results[j].zstd.total_bytes = 200
    /\ call.compressor = "otap" /\ call.method = "zstd"
    /\ ret.values = << <<5, 1>> >>
    /\ extract_format_efficiency_series(
           results, call.dataset, call.compressor).values = << <<5, 4>> >>
    /\ extract_algorithm_effectiveness_series(
           results, call.dataset, call.compressor, call.method).values
       = << <<4, 1>> >>

\* C3 as stated: for any record collection, every format efficiency value of
\* a reference-family compressor is exactly 1.
C3_Original ==
    (/\ call.fn = "extract_format_efficiency_series"
     /\ call.compressor \in ReferenceFamilies)
    => \A k \in Indices(ret.values) : ret.values[k] = One

\* C3 amended: when the dataset has at most one reference-family record per
\* batch size, every format efficiency value of a reference-family compressor
\* is exactly 1.
C3_SelfBaselineIsOne ==
    (/\ call.fn = "extract_format_efficiency_series"
     /\ call.compressor \in ReferenceFamilies
     /\ UniqueReferencePerBatch(results, call.dataset))
    => \A k \in Indices(ret.values) : ret.values[k] = One

\* Two reference records at different batch sizes, both with efficiency 1.
C3_Witness ==
    /\ call.fn = "extract_format_efficiency_series"
    /\ call.compressor \in ReferenceFamilies
    /\ UniqueReferencePerBatch(results, call.dataset)
    /\ ret.values = <<One, One>>

\* C9: get_proto_baseline does not raise, and its keys are exactly the batch
\* sizes of the records that match the dataset and a reference family; the
\* mapping is empty when no record matches.
C9_BaselineKeys ==
    call.fn = "get_proto_baseline"
    => /\ ~ret.raised
       /\ DOMAIN ret.baseline
          = {results[i].batch_size : i \in References(results, call.dataset)}

\* A non-empty collection with no reference record of the dataset.
C9_Witness ==
    /\ call.fn = "get_proto_baseline"
    /\ Len(results) = MaxRecords
    /\ Matching(results, call.dataset, "otap") # {}
    /\ References(results, call.dataset) = {}
    /\ DOMAIN ret.baseline = {}

DecomposerFns ==
    {"extract_format_efficiency_series",
     "extract_algorithm_effectiveness_series", "extract_final_cr_series"}

\* C10 as stated: when the dataset has no reference-family record, each of
\* the three decomposer series is empty and none of the extractions raises.
C10_Original ==
    (call.fn \in DecomposerFns /\ References(results, call.dataset) = {})
    => ~ret.raised /\ ret.batch_sizes = <<>>

\* C10 amended: when the dataset has no reference-family record, the format
\* efficiency and final CR series are empty and do not raise; the algorithm
\* effectiveness series does not raise and has one point for every record of
\* the variant that has the method.
C10_NoReferenceDataset ==
    References(results, call.dataset) = {}
    => /\ call.fn \in {"extract_format_efficiency_series",
                       "extract_final_cr_series"}
          => ~ret.raised /\ ret.batch_sizes = <<>>
       /\ call.fn = "extract_algorithm_effectiveness_series"
          => /\ ~ret.raised
             /\ Len(ret.batch_sizes)
                = Cardinality({i \in Matching(results, call.dataset,
                                              call.compressor) :
                                  call.method \in DOMAIN results[i]})

\* A format efficiency call for a variant that has records in a dataset
\* without a reference record, while another dataset has one.
C10_Witness ==
    /\ call.fn = "extract_format_efficiency_series"
    /\ References(results, call.dataset) = {}
    /\ Matching(results, call.dataset, call.compressor) # {}
    /\ \E d \in Datasets : References(results, d) # {}
    /\ ret.batch_sizes = <<>>

ExtractorFns ==
    DecomposerFns \cup
    {"extract_compression_ratio_series", "extract_speed_series",
     "extract_time_series", "viz_extract_compression_ratio_series",
     "viz_extract_time_series", "viz_extract_throughput_series",
     "viz_extract_e2e_speed_series", "extract_series"}

IsNonDecreasing(seq) ==
    \A i \in 1..(Len(seq) - 1) : seq[i] <= seq[i + 1]

\* C4: the batch sizes returned by every extraction function are
\* non-decreasing, whatever the order of the input.
C4_BatchSizesNonDecreasing ==
    call.fn \in ExtractorFns => IsNonDecreasing(ret.batch_sizes)

\* Two records of one variant given in descending order of batch size come
\* back in ascending order.
C4_Witness ==
    /\ call.fn \in ExtractorFns
    /\ Len(results) = 2
    /\ results[1].batch_size > results[2].batch_size
    /\ ret.batch_sizes = <<results[2].batch_size, results[1].batch_size>>

\* The series the claims call baseline-relative.
BaselineRelativeFns ==
    {"extract_compression_ratio_series", "viz_extract_compression_ratio_series",
     "extract_speed_series", "viz_extract_e2e_speed_series",
     "extract_format_efficiency_series", "extract_final_cr_series"}

\* The calls that read a baseline table for the compressor they are given.
ReadsBaseline ==
    \/ call.fn \in {"extract_speed_series", "viz_extract_e2e_speed_series",
                    "extract_format_efficiency_series", "extract_final_cr_series"}
    \/ /\ call.fn = "extract_compression_ratio_series"
       /\ call.compressor \in PaperOtapVariants \cup ArrowVariants
    \/ /\ call.fn = "viz_extract_compression_ratio_series"
       /\ call.compressor \in VizOtlpBaselined \cup ArrowVariants

NoReferenceAt(rs, dataset, bs) ==
    \A i \in References(rs, dataset) : rs[i].batch_size # bs

HasPointAt(series, bs) ==
    \E k \in Indices(series.batch_sizes) : series.batch_sizes[k] = bs

\* The collection without the records of (dataset, bs).
WithoutBatch(rs, dataset, bs) ==
    SelectSeq(rs, LAMBDA r : ~(r.dataset = dataset /\ r.batch_size = bs))

GroupOf(rs, dataset) ==
    IF dataset \in DOMAIN group_by_dataset(rs)
    THEN group_by_dataset(rs)[dataset] ELSE <<>>

\* The call of the state, made on the collection rs.
Rerun(rs) ==
    CASE call.fn = "extract_compression_ratio_series" ->
             extract_compression_ratio_series(
                 rs, call.dataset, call.compressor, call.method)
      [] call.fn = "viz_extract_compression_ratio_series" ->
             viz_extract_compression_ratio_series(
                 GroupOf(rs, call.dataset), call.compressor, call.method)
      [] call.fn = "extract_speed_series" ->
             extract_speed_series(
                 rs, call.dataset, call.compressor, call.method, call.time_type)
      [] call.fn = "viz_extract_e2e_speed_series" ->
             viz_extract_e2e_speed_series(
                 GroupOf(rs, call.dataset), call.compressor, call.method,
                 call.time_type)
      [] call.fn = "extract_format_efficiency_series" ->
             extract_format_efficiency_series(rs, call.dataset, call.compressor)
      [] call.fn = "extract_final_cr_series" ->
             extract_final_cr_series(
                 rs, call.dataset, call.compressor, call.method)

\* C5 as stated: with no reference-family record at (dataset, bs), a
\* baseline-relative series of any variant that is not a reference family
\* has no point at bs, and the extraction does not raise.
C5_Original ==
    \A bs \in BatchSizes :
        (/\ call.fn \in BaselineRelativeFns
         /\ call.compressor \notin ReferenceFamilies
         /\ NoReferenceAt(results, call.dataset, bs))
        => ~ret.raised /\ ~HasPointAt(ret, bs)

\* What the code guarantees of a sparse baseline: with no reference-family
\* record at (dataset, bs), a series that reads a baseline table for its
\* non-reference variant has no point at bs, and the call returns (or
\* raises) exactly as on the collection without the records at bs.  The
\* ratio extractors read no baseline for the variants they do not list:
\* there a record at bs that has the method is a point at bs.
SparseBaselineLemma ==
    \A bs \in BatchSizes :
        (/\ call.fn \in BaselineRelativeFns
         /\ call.compressor \notin ReferenceFamilies
         /\ NoReferenceAt(results, call.dataset, bs))
        => /\ ReadsBaseline
              => /\ ~HasPointAt(ret, bs)
                 /\ ret = Rerun(WithoutBatch(results, call.dataset, bs))
           /\ (/\ ~ReadsBaseline
               /\ ~ret.raised
               /\ \E i \in Matching(results, call.dataset, call.compressor) :
                      /\ results[i].batch_size = bs
                      /\ call.method \in DOMAIN results[i])
              => HasPointAt(ret, bs)

Max(S) == CHOOSE x \in S : \A y \in S : y <= x

Min(S) == CHOOSE x \in S : \A y \in S : x <= y

\* The records of fams of (dataset, bs).
ReferencesAt(rs, dataset, bs, fams) ==
    {i \in Indices(rs) : /\ rs[i].dataset = dataset /\ rs[i].batch_size = bs
                         /\ rs[i].compressor \in fams}

LastBytes(rs, dataset, bs, fams) ==
    rs[Max(ReferencesAt(rs, dataset, bs, fams))].total_uncompressed_bytes

FirstBytes(rs, dataset, bs, fams) ==
    rs[Min(ReferencesAt(rs, dataset, bs, fams))].total_uncompressed_bytes

OtlpFamilies == {"otlp_metrics", "otlp_traces"}

\* Every point returned is Val(b, r) for a record r of the variant at the
\* point's batch size and the baseline bytes b that Pick chooses among the
\* records of fams.
PointsUse(Pick(_, _, _, _), fams, Val(_, _)) ==
    \A k \in Indices(ret.batch_sizes) :
        /\ ReferencesAt(results, call.dataset, ret.batch_sizes[k], fams) # {}
        /\ \E i \in Matching(results, call.dataset, call.compressor) :
               /\ results[i].batch_size = ret.batch_sizes[k]
               /\ call.method \in Methods => call.method \in DOMAIN results[i]
               /\ ret.values[k]
                  = Val(Pick(results, call.dataset, ret.batch_sizes[k], fams),
                        results[i])

\* The baseline tables built by a loop take their bytes with Table, the
\* lookups of presentation_plots.py with Lookup.
BaselineResolution(Table(_, _, _, _), Lookup(_, _, _, _)) ==
    /\ call.fn = "get_proto_baseline"
       => \A bs \in DOMAIN ret.baseline :
              ret.baseline[bs]
              = Table(results, call.dataset, bs, ReferenceFamilies)
    /\ call.fn = "extract_format_efficiency_series"
       => PointsUse(Table, ReferenceFamilies,
                    LAMBDA b, r : Rat(b, r.total_uncompressed_bytes))
    /\ call.fn = "extract_final_cr_series"
       => PointsUse(Table, ReferenceFamilies,
                    LAMBDA b, r : Rat(b, r[call.method].total_bytes))
    /\ call.fn = "extract_speed_series"
       => PointsUse(Table, ReferenceFamilies,
                    LAMBDA b, r :
                        RatMul(ToRat(r[call.method][call.time_type].throughput_mbps),
                               IF r.total_uncompressed_bytes > 0
                               THEN Rat(b, r.total_uncompressed_bytes) ELSE One))
    /\ (call.fn = "extract_compression_ratio_series"
        /\ call.compressor \in PaperOtapVariants)
       => PointsUse(Table, OtlpFamilies,
                    LAMBDA b, r : Rat(b, r[call.method].total_bytes))
    /\ (call.fn = "extract_compression_ratio_series"
        /\ call.compressor \in ArrowVariants)
       => PointsUse(Table, {"tpch_proto"},
                    LAMBDA b, r : Rat(b, r[call.method].total_bytes))
    /\ (call.fn = "viz_extract_compression_ratio_series"
        /\ call.compressor \in VizOtlpBaselined \cup ArrowVariants)
       => PointsUse(Table,
                    IF call.compressor \in ArrowVariants
                    THEN {"tpch_proto"} ELSE OtlpFamilies,
                    LAMBDA b, r :
                        IF call.method = "raw"
                        THEN Rat(b, r.total_uncompressed_bytes)
                        ELSE Rat(b, r[call.method].total_bytes))
    /\ (call.fn = "viz_extract_e2e_speed_series"
        /\ call.compressor \notin ReferenceFamilies)
       => PointsUse(Table,
                    IF call.compressor \in ArrowVariants
                    THEN {"tpch_proto"} ELSE OtlpFamilies,
                    LAMBDA b, r :
                        Rat(b, r[call.method][call.time_type].avg_ms * 1000))
    /\ call.fn \in {"get_otlp_baseline_bytes", "get_proto_baseline_bytes"}
       => LET fams == IF call.fn = "get_otlp_baseline_bytes"
                      THEN OtlpFamilies ELSE {"tpch_proto"}
          IN  IF ReferencesAt(results, call.dataset, call.arg, fams) = {}
              THEN ret.bytes = <<>>
              ELSE ret.bytes = <<Lookup(results, call.dataset, call.arg, fams)>>
    /\ (call.fn = "extract_series" /\ call.arg # "None" /\ ~ret.raised)
       => PointsUse(Lookup,
                    IF call.arg = "get_otlp_baseline_bytes"
                    THEN OtlpFamilies ELSE {"tpch_proto"},
                    LAMBDA b, r : Rat(b, r[call.method].total_bytes))

\* C8 as stated: in every baseline lookup of the repository the bytes used
\* for a batch size are those of the last reference record in input order.
C8_Original == BaselineResolution(LastBytes, LastBytes)

\* What the code does: every baseline table built by a loop
\* (get_proto_baseline and the tables inside the ratio and e2e speed
\* extractors of paper_plots.py and visualize_batch_size.py) holds the bytes
\* of the last reference record of a batch size; get_otlp_baseline_bytes and
\* get_proto_baseline_bytes of presentation_plots.py return the bytes of the
\* first one.
BaselineResolutionLemma == BaselineResolution(LastBytes, FirstBytes)

PaperPlotFns ==
    {"plot_dataset_compression_ratio", "plot_dataset_speed",
     "plot_dataset_time", "plot_cr_decomposition"}

VizPlotFns ==
    {"plot_compression_ratio", "plot_time", "plot_speed", "plot_throughput"}

\* The series the plotter of the state extracts for config c.
PlotSeries(c) ==
    CASE call.fn = "plot_dataset_compression_ratio" ->
             extract_compression_ratio_series(
                 results, call.dataset, c.compressor, c.method)
      [] call.fn = "plot_dataset_speed" ->
             extract_speed_series(
                 results, call.dataset, c.compressor, c.method, call.time_type)
      [] call.fn = "plot_dataset_time" ->
             extract_time_series(
                 results, call.dataset, c.compressor, c.method, call.time_type)
      [] call.fn = "plot_cr_decomposition" ->
             IF call.method = "format_efficiency"
             THEN extract_format_efficiency_series(
                      results, call.dataset, c.compressor)
             ELSE IF call.method = "algorithm_effectiveness"
             THEN extract_algorithm_effectiveness_series(
                      results, call.dataset, c.compressor, c.method)
             ELSE extract_final_cr_series(
                      results, call.dataset, c.compressor, c.method)

\* Configs i < j of the call share a label, the earlier yields points and
\* the later yields different ones.
Shadowed(i, j) ==
    /\ i < j
    /\ call.arg[i].label = call.arg[j].label
    /\ PlotSeries(call.arg[i]).batch_sizes # <<>>
    /\ Line(call.arg[j].label, PlotSeries(call.arg[j]))
       # Line(call.arg[i].label, PlotSeries(call.arg[i]))

\* C6: series assembly is first-write-wins: when two configs of the list
\* share a label, the earlier yields non-empty points P1 and the later yields
\* P2 # P1, the one series emitted under the label is P1 and P2 is not
\* emitted.
C6_FirstWriteWins ==
    (call.fn \in PaperPlotFns /\ ~ret.raised)
    => \A i, j \in Indices(call.arg) :
           Shadowed(i, j)
           => /\ \E k \in Indices(ret.lines) :
                     ret.lines[k].label = call.arg[i].label
              /\ \A k \in Indices(ret.lines) :
                     ret.lines[k].label = call.arg[i].label
                     => ret.lines[k]
                        = Line(call.arg[i].label, PlotSeries(call.arg[i]))

\* Two configs of one label both yield points, different ones, and the
\* plotter has drawn the earlier one's.
C6_Witness ==
    /\ call.fn \in PaperPlotFns /\ ~ret.raised
    /\ \E i, j \in Indices(call.arg) :
           /\ Shadowed(i, j)
           /\ PlotSeries(call.arg[j]).batch_sizes # <<>>
           /\ \E k \in Indices(ret.lines) :
                  ret.lines[k] = Line(call.arg[i].label, PlotSeries(call.arg[i]))

\* C7: every series-assembling plotter emits at most one series per label.
C7_Original ==
    (call.fn \in PaperPlotFns \cup VizPlotFns /\ ~ret.raised)
    => \A i, j \in Indices(ret.lines) :
           ret.lines[i].label = ret.lines[j].label => i = j

\* What the code does: the plotters of paper_plots.py emit at most one series
\* per label.
SingleSeriesPerLabelLemma ==
    (call.fn \in PaperPlotFns /\ ~ret.raised)
    => \A i, j \in Indices(ret.lines) :
           ret.lines[i].label = ret.lines[j].label => i = j

\* The variants the specification calls derived: columnar or feature-ablated.
DerivedVariants == PaperOtapVariants \cup ArrowVariants

ReferenceFamilyOf(compressor) ==
    IF compressor \in ArrowVariants THEN {"tpch_proto"} ELSE OtlpFamilies

\* C11: in both ratio extractors, every ratio point of a derived variant at
\* batch size bs is baseline[bs] / compressed bytes, the baseline taken from
\* the matching reference family of the dataset.
C11_Original ==
    (/\ call.fn \in {"extract_compression_ratio_series",
                     "viz_extract_compression_ratio_series"}
     /\ call.compressor \in DerivedVariants
     /\ call.method \in Methods
     /\ ~ret.raised)
    => PointsUse(LastBytes, ReferenceFamilyOf(call.compressor),
                 LAMBDA b, r : Rat(b, r[call.method].total_bytes))

\* What the code does: the formula holds of extract_compression_ratio_series
\* of paper_plots.py for every derived variant, and of the one of
\* visualize_batch_size.py for the variants of its own tuples.
DerivedRatioLemma ==
    (/\ \/ call.fn = "extract_compression_ratio_series"
        \/ /\ call.fn = "viz_extract_compression_ratio_series"
           /\ call.compressor \in VizOtlpBaselined \cup ArrowVariants
     /\ call.compressor \in DerivedVariants
     /\ call.method \in Methods
     /\ ~ret.raised)
    => PointsUse(LastBytes, ReferenceFamilyOf(call.compressor),
                 LAMBDA b, r : Rat(b, r[call.method].total_bytes))

\* The metric extractions: ratio, time, throughput, e2e speed.
MetricFns ==
    {"extract_compression_ratio_series", "extract_speed_series",
     "extract_time_series", "viz_extract_compression_ratio_series",
     "viz_extract_time_series", "viz_extract_throughput_series",
     "viz_extract_e2e_speed_series"}

\* The metric extraction of the state, made on the collection rs.
RerunMetric(rs) ==
    CASE call.fn = "extract_time_series" ->
             extract_time_series(
                 rs, call.dataset, call.compressor, call.method, call.time_type)
      [] call.fn = "viz_extract_time_series" ->
             viz_extract_time_series(
                 GroupOf(rs, call.dataset), call.compressor, call.method,
                 call.time_type)
      [] call.fn = "viz_extract_throughput_series" ->
             viz_extract_throughput_series(
                 GroupOf(rs, call.dataset), call.compressor, call.method,
                 call.time_type)
      [] OTHER -> Rerun(rs)

\* The collection without the records of the extracted variant that lack the
\* requested algorithm key.
WithoutKeyless(rs) ==
    SelectSeq(rs, LAMBDA r :
        ~(/\ r.dataset = call.dataset /\ r.compressor = call.compressor
          /\ call.method \notin DOMAIN r))

\* C12: in every metric extraction a matching record that lacks the requested
\* algorithm key contributes no point, and the extraction returns the points
\* of the other records without raising.
C12_Original ==
    (call.fn \in MetricFns /\ call.method \in Methods)
    => /\ ~ret.raised
       /\ ret.batch_sizes = RerunMetric(WithoutKeyless(results)).batch_sizes

\* What the code does: the three metric extractions of paper_plots.py test
\* `method in r` and drop the record.
MissingKeyLemma ==
    (/\ call.fn \in {"extract_compression_ratio_series", "extract_speed_series",
                     "extract_time_series"}
     /\ call.method \in Methods)
    => /\ ~ret.raised
       /\ ret.batch_sizes = RerunMetric(WithoutKeyless(results)).batch_sizes

\* The series has a point at the batch size of r with speed
\* throughput_mbps * scale and std throughput_std_mbps * scale.
SpeedPoint(series, r, scale) ==
    \E k \in Indices(series.batch_sizes) :
        /\ series.batch_sizes[k] = r.batch_size
        /\ series.values[k]
           = RatMul(ToRat(r[call.method][call.time_type].throughput_mbps), scale)
        /\ series.stds[k]
           = RatMul(ToRat(r[call.method][call.time_type].throughput_std_mbps),
                    scale)

\* Record i matches an extract_speed_series call, has the method and has a
\* baseline entry at its batch size.
SpeedRecord(i) ==
    /\ call.fn = "extract_speed_series"
    /\ i \in Matching(results, call.dataset, call.compressor)
    /\ call.method \in DOMAIN results[i]
    /\ ReferencesAt(results, call.dataset, results[i].batch_size,
                    ReferenceFamilies) # {}

BaselineBytes(i) ==
    LastBytes(results, call.dataset, results[i].batch_size, ReferenceFamilies)

\* C13: for each matching record with positive own uncompressed bytes and a
\* baseline entry at its batch size, extract_speed_series emits the speed
\* throughput_mbps * baseline_bytes / own_uncompressed_bytes and the std
\* throughput_std_mbps scaled by the same factor.
C13_E2eSpeedScaling ==
    call.fn = "extract_speed_series"
    => /\ ~ret.raised
       /\ \A i \in Indices(results) :
              (SpeedRecord(i) /\ results[i].total_uncompressed_bytes > 0)
              => SpeedPoint(ret, results[i],
                            Rat(BaselineBytes(i),
                                results[i].total_uncompressed_bytes))

\* A record whose bytes differ from the baseline's has been rescaled.
C13_Witness ==
    /\ ~ret.raised
    /\ \E i \in Indices(results) :
           /\ SpeedRecord(i)
           /\ results[i].total_uncompressed_bytes > 0
           /\ results[i].total_uncompressed_bytes # BaselineBytes(i)
           /\ results[i][call.method][call.time_type].throughput_mbps > 0
           /\ SpeedPoint(ret, results[i],
                         Rat(BaselineBytes(i),
                             results[i].total_uncompressed_bytes))

\* C14: in an e2e speed extraction a matching record whose own uncompressed
\* byte count is 0 gets scale factor 1: its speed is its stored
\* throughput_mbps and its std its stored throughput_std_mbps, whatever the
\* baseline.
C14_ZeroBytesScaleOne ==
    call.fn = "extract_speed_series"
    => /\ ~ret.raised
       /\ \A i \in Indices(results) :
              (SpeedRecord(i) /\ results[i].total_uncompressed_bytes = 0)
              => SpeedPoint(ret, results[i], One)

\* A record of 0 bytes at a batch size with a baseline has been emitted with
\* its stored throughput.
C14_Witness ==
    /\ ~ret.raised
    /\ \E i \in Indices(results) :
           /\ SpeedRecord(i)
           /\ results[i].total_uncompressed_bytes = 0
           /\ BaselineBytes(i) > 1
           /\ results[i][call.method][call.time_type].throughput_mbps > 0
           /\ ret.batch_sizes = <<results[i].batch_size>>
           /\ ret.values
              = <<ToRat(results[i][call.method][call.time_type].throughput_mbps)>>

(***************************************************************************)
(* Records as json.load returns them: a structural key may be missing, and *)
(* reading it raises KeyError.                                             *)
(***************************************************************************)

StructuralFields ==
    {"dataset", "compressor", "batch_size", "total_uncompressed_bytes"}

Lacks(r, field) == field \notin DOMAIN r

WithoutField(r, field) == [k \in DOMAIN r \ {field} |-> r[k]]

\* KeyError in `r["dataset"] == dataset and r["compressor"] == compressor`:
\* the second operand is read only when the first is true.
key_error_in_filter(rs, dataset) ==
    \E i \in 1..Len(rs) :
        \/ Lacks(rs[i], "dataset")
        \/ rs[i].dataset = dataset /\ Lacks(rs[i], "compressor")

\* KeyError in filtered.sort(key=lambda x: x["batch_size"]).
key_error_in_sort(rs, dataset, compressor) ==
    \E i \in 1..Len(rs) :
        /\ rs[i].dataset = dataset /\ rs[i].compressor = compressor
        /\ Lacks(rs[i], "batch_size")

\* KeyError in a baseline loop over the families fams.
key_error_in_baseline(rs, dataset, fams) ==
    \E i \in 1..Len(rs) :
        \/ Lacks(rs[i], "dataset")
        \/ /\ rs[i].dataset = dataset
           /\ \/ Lacks(rs[i], "compressor")
              \/ /\ rs[i].compressor \in fams
                 /\ \/ Lacks(rs[i], "batch_size")
                    \/ Lacks(rs[i], "total_uncompressed_bytes")

get_proto_baseline_raw(rs, dataset) ==
    IF key_error_in_baseline(rs, dataset, ReferenceFamilies)
    THEN [raised |-> TRUE, baseline |-> <<>>]
    ELSE [raised |-> FALSE, baseline |-> get_proto_baseline(rs, dataset)]

extract_compression_ratio_series_raw(rs, dataset, compressor, method) ==
    IF key_error_in_filter(rs, dataset) THEN Raised
    ELSE IF key_error_in_sort(rs, dataset, compressor) THEN Raised
    ELSE IF /\ compressor \in PaperOtapVariants
            /\ key_error_in_baseline(rs, dataset, {"otlp_metrics", "otlp_traces"})
    THEN Raised
    ELSE IF /\ compressor \in ArrowVariants
            /\ key_error_in_baseline(rs, dataset, {"tpch_proto"})
    THEN Raised
    ELSE extract_compression_ratio_series(rs, dataset, compressor, method)

group_by_dataset_raw(rs) ==
    IF \E i \in 1..Len(rs) : Lacks(rs[i], "dataset")
    THEN [raised |-> TRUE, grouped |-> <<>>]
    ELSE [raised |-> FALSE, grouped |-> group_by_dataset(rs)]

\* A reference record and a derived record of one batch size, whole or with
\* one structural key missing.
RawRecords ==
    LET whole == Records({"d1"}, {"otlp_metrics", "otap"}, {100}, {1000},
                         Present("zstd", {Zstd200}), Absent)
    IN  whole \cup {WithoutField(r, f) : r \in whole, f \in StructuralFields}

InitRaw == results \in SeqsUpTo(RawRecords, MaxRecords) /\ NotCalled

RawGetProtoBaseline ==
    /\ Idle
    /\ \E d \in Datasets :
        /\ call' = Call("get_proto_baseline", d, "-", "-", "-", "-")
        /\ ret' = get_proto_baseline_raw(results, d)
        /\ UNCHANGED <<results, frames, train, files>>

RawExtractCompressionRatioSeries ==
    /\ Idle
    /\ \E d \in Datasets, c \in {"otlp_metrics", "otap"} :
        /\ call' = Call("extract_compression_ratio_series", d, c, "zstd", "-", "-")
        /\ ret' = extract_compression_ratio_series_raw(results, d, c, "zstd")
        /\ UNCHANGED <<results, frames, train, files>>

RawGroupByDataset ==
    /\ Idle
    /\ call' = Call("group_by_dataset", "-", "-", "-", "-", "-")
    /\ ret' = group_by_dataset_raw(results)
    /\ UNCHANGED <<results, frames, train, files>>

NextRaw ==
    \/ RawGetProtoBaseline
    \/ RawExtractCompressionRatioSeries
    \/ RawGroupByDataset

SpecRaw == InitRaw /\ [][NextRaw]_vars

IncompleteRecord(r) == \E f \in StructuralFields : Lacks(r, f)

\* C15: an extraction over a collection that holds a record lacking a
\* structural field (dataset, compressor, batch_size or
\* total_uncompressed_bytes) fails with an error, wherever the record sits
\* and whatever dataset or variant is extracted.
C15_Original ==
    (/\ call.fn # "none"
     /\ \E i \in Indices(results) : IncompleteRecord(results[i]))
    => ret.raised

\* What the code does: a record without the dataset key fails every call; a
\* record without another key fails the call only if the call reads that key
\* of that record.
MissingDatasetLemma ==
    (/\ call.fn # "none"
     /\ \E i \in Indices(results) : Lacks(results[i], "dataset"))
    => ret.raised

(***************************************************************************)
(* The extractions of paper_plots.py statement by statement.  A host may   *)
(* run two of them at once over the one collection: each has its own frame *)
(* of locals (baseline, filtered, the lists it returns), and `results` is  *)
(* the list both read.                                                     *)
(***************************************************************************)

Threads == {1, 2}

\* The statements of a function in the order it runs them.
Program(fn) ==
    CASE fn = "get_proto_baseline" -> <<"baseline", "done">>
      [] fn = "extract_speed_series" ->
             <<"filter", "sort", "baseline", "emit", "done">>
      [] fn = "extract_format_efficiency_series" ->
             <<"baseline", "filter", "sort", "emit", "done">>
      \* the ratio of an OTAP variant
      [] fn = "extract_compression_ratio_series" ->
             <<"filter", "sort", "baseline", "emit", "done">>
      \* main groups the records, then extracts from those of the dataset
      [] fn = "viz_extract_compression_ratio_series" ->
             <<"group", "filter", "sort", "baseline", "emit", "done">>
      [] OTHER -> <<"idle">>

Frame(fn, dataset, compressor, method, time_type) ==
    [fn |-> fn, dataset |-> dataset, compressor |-> compressor,
     method |-> method, time_type |-> time_type, phase |-> 1, i |-> 1,
     dataset_results |-> <<>>, baseline |-> <<>>, filtered |-> <<>>,
     out |-> Returned(<<>>, <<>>, <<>>)]

NoFrame == Frame("none", "-", "-", "-", "-")

pc(f) == Program(f.fn)[f.phase]

\* The list the function was handed: the collection, or the new list that
\* group_by_dataset built for the dataset.
Handed(f) ==
    IF f.fn = "viz_extract_compression_ratio_series"
    THEN f.dataset_results ELSE results

\* The families whose records make the baseline table of the function.
BaselineFamilies(f) ==
    IF f.fn \in {"extract_compression_ratio_series",
                 "viz_extract_compression_ratio_series"}
    THEN {"otlp_metrics", "otlp_traces"} ELSE ReferenceFamilies

\* The next statement, its loop index at the start.
Advance(f) == [f EXCEPT !.phase = @ + 1, !.i = 1]

\* return: the frame holds the value returned.
ReturnValue(f, value) ==
    [f EXCEPT !.phase = Len(Program(f.fn)), !.i = 1, !.out = value]

\* Mutant: the reference test of the loop is forgotten.
baseline_after_any_compressor(baseline, r, dataset, families) ==
    IF r.dataset = dataset
    THEN DictSet(baseline, r.batch_size, r.total_uncompressed_bytes)
    ELSE baseline

\* One iteration of a baseline loop (get_proto_baseline, or the loop inside a
\* ratio extraction).
baseline_after(baseline, r, dataset, families) ==
    IF r.dataset = dataset /\ r.compressor \in families
    THEN DictSet(baseline, r.batch_size, r.total_uncompressed_bytes)
    ELSE baseline

\* One iteration of the list comprehension: filtered is a new list.
filtered_after(filtered, r, dataset, compressor) ==
    IF r.dataset = dataset /\ r.compressor = compressor
    THEN Append(filtered, r) ELSE filtered

\* Mutant: the sort is done on the list the caller passed.
results_sorted_in_place(rs, filtered) == sort_by_batch_size(rs)

\* filtered.sort(...) sorts the list the comprehension built; the list the
\* caller passed is another object and stays as it is.
results_after_sort(rs, filtered) == rs

\* One iteration of the loop over filtered.
emit_after(f, r) ==
    IF f.fn = "extract_speed_series"
    THEN IF r.batch_size \notin DOMAIN f.baseline \/ f.method \notin DOMAIN r
         THEN f
         ELSE [f EXCEPT !.out =
                  Returned(
                      Append(@.batch_sizes, r.batch_size),
                      Append(@.values,
                          RatMul(ToRat(r[f.method][f.time_type].throughput_mbps),
                                 speed_scale(f.baseline, r))),
                      Append(@.stds,
                          RatMul(ToRat(r[f.method][f.time_type].throughput_std_mbps),
                                 speed_scale(f.baseline, r))))]
    ELSE IF f.fn = "extract_compression_ratio_series"
    THEN IF r.batch_size \notin DOMAIN f.baseline \/ f.method \notin DOMAIN r
         THEN f
         ELSE [f EXCEPT !.out =
                  Returned(Append(@.batch_sizes, r.batch_size),
                           Append(@.values, Rat(f.baseline[r.batch_size],
                                                r[f.method].total_bytes)),
                           <<>>)]
    ELSE IF f.fn = "viz_extract_compression_ratio_series"
    THEN IF r.batch_size \notin DOMAIN f.baseline THEN f
         ELSE IF f.method \notin DOMAIN r THEN ReturnValue(f, Raised)
         ELSE [f EXCEPT !.out =
                  Returned(Append(@.batch_sizes, r.batch_size),
                           Append(@.values, Rat(f.baseline[r.batch_size],
                                                r[f.method].total_bytes)),
                           <<>>)]
    ELSE IF r.batch_size \notin DOMAIN f.baseline THEN f
    ELSE IF r.total_uncompressed_bytes = 0 THEN ReturnValue(f, Raised)
    ELSE [f EXCEPT !.out =
             Returned(Append(@.batch_sizes, r.batch_size),
                      Append(@.values, format_efficiency_value(f.baseline, r)),
                      <<>>)]

\* Reference and derived records of one dataset; the derived ones differ in
\* size from the reference, one is empty.
StepRecords ==
    Records({"d1"}, {"otlp_metrics", "otap"}, BatchSizes, {1000},
            Present("zstd", {Zstd200}), Absent)
    \cup Records({"d1"}, {"otap"}, {100}, {0, 800},
            Present("zstd", {Zstd250}), Absent)

StepCalls ==
    {Frame("get_proto_baseline", "d1", "-", "-", "-")}
    \cup {Frame("extract_speed_series", "d1", c, "zstd", "compression") :
            c \in {"otlp_metrics", "otap"}}
    \cup {Frame("extract_format_efficiency_series", "d1", c, "-", "-") :
            c \in {"otlp_metrics", "otap"}}
    \cup {Frame(fn, "d1", "otap", "zstd", "-") :
            fn \in {"extract_compression_ratio_series",
                    "viz_extract_compression_ratio_series"}}

InitSteps ==
    /\ results \in SeqsUpTo(StepRecords, MaxRecords)
    /\ call = NoCall /\ ret = Returned(<<>>, <<>>, <<>>)
    /\ frames = [t \in Threads |-> NoFrame]
    /\ train = <<>> /\ files = <<>>

\* The host calls a function on thread t.
StartCall(t) ==
    /\ pc(frames[t]) = "idle"
    /\ \E f \in StepCalls : frames' = [frames EXCEPT ![t] = f]
    /\ UNCHANGED <<results, call, ret, train, files>>

\* grouped = group_by_dataset(results); dataset_results = grouped[dataset]
GroupStep(t) ==
    LET f == frames[t]
    IN  /\ pc(f) = "group"
        /\ frames' = [frames EXCEPT ![t] =
              Advance([f EXCEPT !.dataset_results = GroupOf(results, f.dataset)])]
        /\ UNCHANGED <<results, call, ret, train, files>>

\* for r in results: ... baseline[r["batch_size"]] = ...; return baseline
BaselineStep(t) ==
    LET f == frames[t]
    IN  /\ pc(f) = "baseline"
        /\ frames' = [frames EXCEPT ![t] =
              IF f.i <= Len(Handed(f))
              THEN [f EXCEPT !.i = @ + 1,
                             !.baseline = baseline_after(@, Handed(f)[f.i],
                                              f.dataset, BaselineFamilies(f))]
              ELSE IF f.fn = "get_proto_baseline"
              THEN ReturnValue(f, [raised |-> FALSE, baseline |-> f.baseline])
              ELSE IF f.fn = "extract_format_efficiency_series"
                      /\ DOMAIN f.baseline = {}
              THEN ReturnValue(f, Returned(<<>>, <<>>, <<>>))
              ELSE Advance(f)]
        /\ UNCHANGED <<results, call, ret, train, files>>

\* filtered = [r for r in results if ...]
FilterStep(t) ==
    LET f == frames[t]
    IN  /\ pc(f) = "filter"
        /\ frames' = [frames EXCEPT ![t] =
              IF f.i <= Len(Handed(f))
              THEN [f EXCEPT !.i = @ + 1,
                             !.filtered = filtered_after(@, Handed(f)[f.i],
                                                         f.dataset, f.compressor)]
              ELSE Advance(f)]
        /\ UNCHANGED <<results, call, ret, train, files>>

\* filtered.sort(key=lambda x: x["batch_size"])
SortStep(t) ==
    LET f == frames[t]
    IN  /\ pc(f) = "sort"
        /\ frames' = [frames EXCEPT ![t] =
              Advance([f EXCEPT !.filtered = sort_by_batch_size(@)])]
        /\ results' = results_after_sort(results, f.filtered)
        /\ UNCHANGED <<call, ret, train, files>>

\* for r in filtered: ...append(...); return the lists
EmitStep(t) ==
    LET f == frames[t]
    IN  /\ pc(f) = "emit"
        /\ frames' = [frames EXCEPT ![t] =
              IF f.i <= Len(f.filtered)
              THEN emit_after([f EXCEPT !.i = @ + 1], f.filtered[f.i])
              ELSE Advance(f)]
        /\ UNCHANGED <<results, call, ret, train, files>>

\* The host has taken the value returned; the thread is free for a new call.
TakeResult(t) ==
    /\ pc(frames[t]) = "done"
    /\ frames' = [frames EXCEPT ![t] = NoFrame]
    /\ UNCHANGED <<results, call, ret, train, files>>

NextSteps ==
    \E t \in Threads :
        \/ StartCall(t)
        \/ GroupStep(t)
        \/ BaselineStep(t)
        \/ FilterStep(t)
        \/ SortStep(t)
        \/ EmitStep(t)
        \/ TakeResult(t)

SpecSteps == InitSteps /\ [][NextSteps]_vars

\* What the call of frame f returns when it runs alone on the collection.
Alone(f) ==
    CASE f.fn = "get_proto_baseline" ->
             [raised |-> FALSE, baseline |-> get_proto_baseline(results, f.dataset)]
      [] f.fn = "extract_speed_series" ->
             extract_speed_series(results, f.dataset, f.compressor, f.method,
                                  f.time_type)
      [] f.fn = "extract_format_efficiency_series" ->
             extract_format_efficiency_series(results, f.dataset, f.compressor)
      [] f.fn = "extract_compression_ratio_series" ->
             extract_compression_ratio_series(results, f.dataset, f.compressor,
                                              f.method)
      [] f.fn = "viz_extract_compression_ratio_series" ->
             viz_extract_compression_ratio_series(
                 GroupOf(results, f.dataset), f.compressor, f.method)

ReturnsAsAlone ==
    \A t \in DOMAIN frames :
        pc(frames[t]) = "done" => frames[t].out = Alone(frames[t])

\* C16: after any sequence of extraction and decomposition calls the input
\* collection is unchanged: same records, same order, same field values.
C16_InputUnchanged == [][results' = results]_vars

\* An extraction has sorted its filtered list into an order that the
\* collection, still as it was, does not have.
C16_Witness ==
    /\ Len(results) = 2
    /\ results[1].batch_size > results[2].batch_size
    /\ \E t \in DOMAIN frames :
           /\ pc(frames[t]) = "done"
           /\ frames[t].filtered = <<results[2], results[1]>>
           /\ frames[t].out.batch_sizes
              = <<results[2].batch_size, results[1].batch_size>>

\* C17: for any interleaving of the steps of two extractions over the same
\* collection, each returns the series it returns when run alone, and the
\* collection is unchanged.
C17_InterleavingsAgree == []ReturnsAsAlone /\ [][results' = results]_vars

\* One extraction has returned its points while the other is half way
\* through its own loop over the same collection.
C17_Witness ==
    /\ Len(results) = 2
    /\ pc(frames[1]) = "done"
    /\ frames[1].fn = "extract_speed_series"
    /\ Len(frames[1].out.batch_sizes) = 1
    /\ frames[1].out = Alone(frames[1])
    /\ pc(frames[2]) = "baseline"
    /\ frames[2].i = 2

\* A record of the extracted variant has 0 uncompressed bytes and a baseline
\* entry at its batch size.
EmptyRecordWithBaseline ==
    \E i \in Matching(results, call.dataset, call.compressor) :
        /\ results[i].total_uncompressed_bytes = 0
        /\ ReferencesAt(results, call.dataset, results[i].batch_size,
                        ReferenceFamilies) # {}

\* C18: division by a record's own uncompressed byte count of 0 never
\* surfaces as an error: the e2e speed extraction and the format efficiency
\* extraction both complete when a matching record has 0 bytes and a
\* baseline entry at its batch size.
C18_Original ==
    (/\ call.fn \in {"extract_speed_series", "extract_format_efficiency_series"}
     /\ EmptyRecordWithBaseline)
    => ~ret.raised

\* What the code does: extract_speed_series guards the division and
\* completes; extract_format_efficiency_series divides and raises.
ZeroBytesLemma ==
    EmptyRecordWithBaseline
    => /\ call.fn = "extract_speed_series" => ~ret.raised
       /\ call.fn = "extract_format_efficiency_series" => ret.raised

\* Config j of the call yields points, an earlier config of the same label
\* yields none, and no earlier config of the label yields any.
FirstWithPoints(j) ==
    /\ PlotSeries(call.arg[j]).batch_sizes # <<>>
    /\ \E i \in 1..(j - 1) : call.arg[i].label = call.arg[j].label
    /\ \A i \in 1..(j - 1) :
           call.arg[i].label = call.arg[j].label
           => PlotSeries(call.arg[i]).batch_sizes = <<>>

\* C19: a configuration that yields no data points does not reserve its
\* label: if an earlier configuration for label L yields an empty series and
\* a later one yields points, the later one's points are emitted under L.
C19_EmptyDoesNotReserve ==
    (call.fn \in PaperPlotFns /\ ~ret.raised)
    => \A j \in Indices(call.arg) :
           FirstWithPoints(j)
           => \E k \in Indices(ret.lines) :
                  ret.lines[k] = Line(call.arg[j].label, PlotSeries(call.arg[j]))

\* The second config of a label is the first that yields points, and its
\* points are drawn.
C19_Witness ==
    /\ call.fn \in PaperPlotFns /\ ~ret.raised
    /\ \E j \in Indices(call.arg) :
           /\ FirstWithPoints(j)
           /\ \E k \in Indices(ret.lines) :
                  ret.lines[k] = Line(call.arg[j].label, PlotSeries(call.arg[j]))

RatioFns ==
    {"extract_compression_ratio_series", "viz_extract_compression_ratio_series"}

\* The records of the extracted (dataset, variant), in input order.
OwnRecords(rs) ==
    SelectSeq(rs, LAMBDA r :
        r.dataset = call.dataset /\ r.compressor = call.compressor)

\* C20: the ratio series of a reference-family variant is the stored
\* compression_ratio of its own records and involves no baseline lookup: the
\* call returns what it returns on the records of (dataset, variant) alone,
\* whatever other records the collection holds.
C20_ReferenceRatioIsStored ==
    (call.fn \in RatioFns /\ call.compressor \in ReferenceFamilies)
    => LET own == OwnRecords(results)
           pts == SelectSeq(sort_by_batch_size(own),
                            LAMBDA r : call.method \in DOMAIN r)
       IN  /\ ret = Rerun(own)
           /\ ~ret.raised
              => /\ ret.batch_sizes = [k \in 1..Len(pts) |-> pts[k].batch_size]
                 /\ ret.values
                    = [k \in 1..Len(pts) |-> pts[k][call.method].compression_ratio]

\* A reference record is extracted from a collection that also holds a
\* reference record of another family with a different byte count at the
\* same batch size: the point is the stored ratio.
C20_Witness ==
    /\ call.fn \in RatioFns /\ call.compressor \in ReferenceFamilies
    /\ call.method \in Methods
    /\ ~ret.raised
    /\ \E i, j \in Indices(results) :
           /\ i \in Matching(results, call.dataset, call.compressor)
           /\ j \in References(results, call.dataset)
           /\ results[j].compressor # call.compressor
           /\ results[j].batch_size = results[i].batch_size
           /\ results[j].total_uncompressed_bytes
              # results[i].total_uncompressed_bytes
           /\ ret.batch_sizes = <<results[i].batch_size>>
           /\ ret.values = <<results[i][call.method].compression_ratio>>

\* The values of the points of the series at batch size bs, in series order.
ValuesAt(series, bs) ==
    LET at == SelectSeq([k \in 1..Len(series.batch_sizes) |-> k],
                        LAMBDA k : series.batch_sizes[k] = bs)
    IN  [j \in 1..Len(at) |-> series.values[at[j]]]

\* The calls whose points are one per matching record that has the method,
\* and the value of the point of record r.
OnePointPerRecord ==
    \/ call.fn \in {"extract_time_series", "viz_extract_time_series"}
    \/ call.fn = "extract_series" /\ call.arg = "None"

OwnValue(r) ==
    IF call.fn = "extract_series" THEN r[call.method].compression_ratio
    ELSE r[call.method][call.time_type].avg_ms

\* The values of the matching records of batch size bs, in input order.
InputValuesAt(bs) ==
    LET at == SelectSeq(OwnRecords(results), LAMBDA r :
                  r.batch_size = bs /\ call.method \in DOMAIN r)
    IN  [j \in 1..Len(at) |-> OwnValue(at[j])]

\* C21: sorting by batch size is stable: the points of matching records that
\* share a batch size appear in the series in the relative order of the
\* records in the input.
C21_StableSort ==
    (OnePointPerRecord /\ ~ret.raised)
    => \A bs \in BatchSizes : ValuesAt(ret, bs) = InputValuesAt(bs)

\* Two matching records of one batch size with different values: their
\* points are in input order.
C21_Witness ==
    /\ OnePointPerRecord /\ ~ret.raised
    /\ Len(results) = 2
    /\ Matching(results, call.dataset, call.compressor) = {1, 2}
    /\ results[1].batch_size = results[2].batch_size
    /\ call.method \in DOMAIN results[1] /\ call.method \in DOMAIN results[2]
    /\ OwnValue(results[1]) # OwnValue(results[2])
    /\ ret.values = <<OwnValue(results[1]), OwnValue(results[2])>>

(***************************************************************************)
(* Loading the benchmark document.  What json.load returns is either a     *)
(* list of records or a dict; of a dict the model keeps its key set and    *)
(* the list under "results" (items, meaningful only when the key is        *)
(* there).  In SpecLoad the variable results holds the document.           *)
(***************************************************************************)

ListDocument(rs) == [is_dict |-> FALSE, keys |-> {}, items |-> rs]

DictDocument(keys, rs) == [is_dict |-> TRUE, keys |-> keys, items |-> rs]

Documents(recs) ==
    {ListDocument(rs) : rs \in recs}
    \cup {DictDocument(ks, rs) : ks \in {{"results"}, {"results", "metadata"}},
                                 rs \in recs}
    \cup {DictDocument(ks, <<>>) : ks \in {{}, {"metadata"}}}

Loaded(rs, plots) ==
    [raised |-> FALSE, loaded |-> TRUE, records |-> rs, plots |-> plots]

\* The records were bound, a later extraction raised.
LoadedThenRaised(rs) ==
    [raised |-> TRUE, loaded |-> TRUE, records |-> rs, plots |-> <<>>]

\* TypeError (a list indexed by a string, a string indexed by "dataset") or
\* KeyError (a dict without the key).
LoadRaised ==
    [raised |-> TRUE, loaded |-> FALSE, records |-> <<>>, plots |-> <<>>]

\* visualize_batch_size.load_results: the list under "results" when the
\* document is a dict holding that key, the document itself otherwise.
load_results(data) ==
    IF data.is_dict /\ "results" \in data.keys
    THEN ListDocument(data.items)
    ELSE data

plot_dataset(dataset_results) ==
    << plot_compression_ratio(dataset_results),
       plot_time(dataset_results, "compression"),
       plot_time(dataset_results, "decompression"),
       plot_speed(dataset_results, "compression"),
       plot_speed(dataset_results, "decompression"),
       plot_throughput(dataset_results, "compression"),
       plot_throughput(dataset_results, "decompression") >>

\* visualize_batch_size.main from the load on.  Iterating a dict yields its
\* keys, and group_by_dataset indexes each with "dataset".
viz_main(data) ==
    LET loaded == load_results(data)
    IN  IF loaded.is_dict /\ loaded.keys # {} THEN LoadRaised
        ELSE LET rs == IF loaded.is_dict THEN <<>> ELSE loaded.items
                 grouped == group_by_dataset(rs)
                 plots == [d \in DOMAIN grouped |-> plot_dataset(grouped[d])]
             IN  IF \E d \in DOMAIN grouped :
                        \E k \in 1..7 : plots[d][k].raised
                 THEN LoadedThenRaised(rs)
                 ELSE Loaded(rs, plots)

\* data["results"] of paper_plots.py and presentation_plots.py.
subscript_results(data) ==
    IF data.is_dict /\ "results" \in data.keys
    THEN Loaded(data.items, <<>>)
    ELSE LoadRaised

\* paper_plots.create_compression_ratio_combined: one axis per dataset, the
\* OTel datasets from otel_data and the TPC-H dataset from tpch_data.
create_compression_ratio_combined(otel_data, tpch_data) ==
    LET otel_results == subscript_results(otel_data)
        tpch_results == subscript_results(tpch_data)
    IN  IF otel_results.raised \/ tpch_results.raised THEN LoadRaised
        ELSE LET axes ==
                   << plot_dataset_compression_ratio(otel_results.records, "d1",
                          get_series_configs_otel),
                      plot_dataset_compression_ratio(tpch_results.records, "d2",
                          get_series_configs_tpch) >>
             IN  IF axes[1].raised \/ axes[2].raised
                 THEN LoadedThenRaised(otel_results.records)
                 ELSE Loaded(otel_results.records, axes)

\* presentation_plots.plot_graph1: three series of one dataset, each drawn
\* when it has points, OpenZL first.
plot_graph1(otel_data) ==
    LET results_ == subscript_results(otel_data)
    IN  IF results_.raised THEN LoadRaised
        ELSE LET rs == results_.records
                 otlp_zstd == extract_series(rs, "d1", "otlp_metrics", "zstd", "None")
                 otlp_openzl == extract_series(rs, "d1", "otlp_metrics", "openzl", "None")
                 otap_zstd == extract_series(rs, "d1", "otap", "zstd",
                                             "get_otlp_baseline_bytes")
                 drawn == << [label |-> "OTLP + OpenZL", series |-> otlp_openzl],
                             [label |-> "OTLP + zstd", series |-> otlp_zstd],
                             [label |-> "OTAP + zstd", series |-> otap_zstd] >>
             IN  IF otlp_zstd.raised \/ otlp_openzl.raised \/ otap_zstd.raised
                 THEN LoadedThenRaised(rs)
                 ELSE Loaded(rs, << SelectSeq(
                          [k \in 1..3 |-> Line(drawn[k].label, drawn[k].series)],
                          LAMBDA l : l.batch_sizes # <<>>) >>)

InitLoad == results \in Documents(SeqsUpTo(PlotRecords, MaxRecords)) /\ NotCalled

LoadResults ==
    /\ Idle
    /\ call' = Call("load_results", "-", "-", "-", "-", "-")
    /\ ret' = [raised |-> FALSE, value |-> load_results(results)]
    /\ UNCHANGED <<results, frames, train, files>>

VizMain ==
    /\ Idle
    /\ call' = Call("viz_main", "-", "-", "-", "-", "-")
    /\ ret' = viz_main(results)
    /\ UNCHANGED <<results, frames, train, files>>

\* paper_plots.main hands the one combined document as both arguments.
CreateCompressionRatioCombined ==
    /\ Idle
    /\ call' = Call("create_compression_ratio_combined", "-", "-", "-", "-", "-")
    /\ ret' = create_compression_ratio_combined(results, results)
    /\ UNCHANGED <<results, frames, train, files>>

PlotGraph1 ==
    /\ Idle
    /\ call' = Call("plot_graph1", "-", "-", "-", "-", "-")
    /\ ret' = plot_graph1(results)
    /\ UNCHANGED <<results, frames, train, files>>

NextLoad ==
    \/ LoadResults
    \/ VizMain
    \/ CreateCompressionRatioCombined
    \/ PlotGraph1

SpecLoad == InitLoad /\ [][NextLoad]_vars

EntryPoints == {"viz_main", "create_compression_ratio_combined", "plot_graph1"}

\* The document is one of the two shapes the loaders are to accept.
BareList == ~results.is_dict

ResultsObject == results.is_dict /\ "results" \in results.keys

\* C22: every entry point that loads benchmark input accepts both top-level
\* shapes: given a bare list of records, or an object whose results key
\* holds that list, it binds that same record sequence.
C22_Original ==
    (BareList \/ ResultsObject)
    => /\ call.fn = "load_results" => ret.value = ListDocument(results.items)
       /\ call.fn \in EntryPoints
            => ret.loaded /\ ret.records = results.items

\* What the code does: load_results and the visualize entry point take both
\* shapes; the paper and presentation entry points take the object shape and
\* fail on a bare list.
LoadShapesLemma ==
    /\ (BareList \/ ResultsObject)
        => /\ call.fn = "load_results" => ret.value = ListDocument(results.items)
           /\ call.fn = "viz_main" => ret.loaded /\ ret.records = results.items
    /\ call.fn \in {"create_compression_ratio_combined", "plot_graph1"}
        => /\ ResultsObject => ret.loaded /\ ret.records = results.items
           /\ BareList => ret = LoadRaised

BatchSet(series) == {series.batch_sizes[k] : k \in Indices(series.batch_sizes)}

\* The other two decomposition series of the call's dataset, variant and method.
FormatEfficiencyOfCall ==
    extract_format_efficiency_series(results, call.dataset, call.compressor)

AlgorithmEffectivenessOfCall ==
    extract_algorithm_effectiveness_series(results, call.dataset,
                                           call.compressor, call.method)

\* C23: with unique (dataset, batch_size, compressor) triples, the batch
\* sizes of the final CR series are those in both the format efficiency
\* series and the algorithm effectiveness series, for every dataset,
\* compressor and method.
C23_Original ==
    (/\ call.fn = "extract_final_cr_series"
     /\ UniqueTriples(results)
     /\ ~ret.raised)
    => /\ ~FormatEfficiencyOfCall.raised
       /\ ~AlgorithmEffectivenessOfCall.raised
       /\ BatchSet(ret) = BatchSet(FormatEfficiencyOfCall)
                            \cap BatchSet(AlgorithmEffectivenessOfCall)

\* What the code does: the batch sizes agree whenever the format efficiency
\* extraction returns, which it does when no selected record has zero bytes.
BatchIntersectionLemma ==
    (/\ call.fn = "extract_final_cr_series"
     /\ UniqueTriples(results)
     /\ ~ret.raised)
    => /\ ~AlgorithmEffectivenessOfCall.raised
       /\ PositiveBytes(results) => ~FormatEfficiencyOfCall.raised
       /\ ~FormatEfficiencyOfCall.raised
            => BatchSet(ret) = BatchSet(FormatEfficiencyOfCall)
                                 \cap BatchSet(AlgorithmEffectivenessOfCall)

\* The reference records of the dataset all belong to one reference family,
\* and that family is one the ratio extractor reads for the variant.
OneMatchingFamily(rs, dataset, compressor) ==
    \E fam \in ReferenceFamilyOf(compressor) :
        \A i \in References(rs, dataset) : rs[i].compressor = fam

\* C24: for a derived variant (OTAP or Arrow) in a dataset whose reference
\* records all belong to one reference family matching the variant,
\* extract_compression_ratio_series and extract_final_cr_series return the
\* same batch sizes and the same values.
C24_RatioIsFinalCr ==
    (/\ call.fn \in {"extract_compression_ratio_series", "extract_final_cr_series"}
     /\ call.compressor \in DerivedVariants
     /\ OneMatchingFamily(results, call.dataset, call.compressor))
    => /\ ret = extract_compression_ratio_series(results, call.dataset,
                                                 call.compressor, call.method)
       /\ ret = extract_final_cr_series(results, call.dataset,
                                        call.compressor, call.method)

\* A derived record whose own bytes differ from its baseline's: the ratio
\* extractor returns the point the final CR extractor returns.
C24_Witness ==
    /\ call.fn = "extract_compression_ratio_series"
    /\ call.compressor \in DerivedVariants
    /\ OneMatchingFamily(results, call.dataset, call.compressor)
    /\ Len(results) = 2
    /\ results[1].total_uncompressed_bytes # results[2].total_uncompressed_bytes
    /\ ~ret.raised /\ Len(ret.batch_sizes) = 1
    /\ ret = extract_final_cr_series(results, call.dataset, call.compressor,
                                     call.method)

\* C25: for a reference-family variant in a dataset with one reference record
\* per batch size, extract_final_cr_series and
\* extract_algorithm_effectiveness_series return the same batch sizes and
\* values for every method: the final ratio of the reference encoding is its
\* own uncompressed / compressed ratio.
C25_ReferenceFinalIsEffectiveness ==
    (/\ call.fn \in {"extract_final_cr_series",
                     "extract_algorithm_effectiveness_series"}
     /\ call.compressor \in ReferenceFamilies
     /\ UniqueReferencePerBatch(results, call.dataset))
    => /\ ret = extract_final_cr_series(results, call.dataset,
                                        call.compressor, call.method)
       /\ ret = extract_algorithm_effectiveness_series(results, call.dataset,
                    call.compressor, call.method)

\* Two reference records of different batch sizes: the final CR series has
\* the two points of the algorithm effectiveness series.
C25_Witness ==
    /\ call.fn = "extract_final_cr_series"
    /\ call.compressor \in ReferenceFamilies
    /\ UniqueReferencePerBatch(results, call.dataset)
    /\ ~ret.raised /\ Len(ret.batch_sizes) = 2
    /\ ret.values[1] = Rat(5, 1)
    /\ ret = extract_algorithm_effectiveness_series(results, call.dataset,
                 call.compressor, call.method)

\* The six extractions of paper_plots.py.
PaperExtractorFns ==
    {"extract_compression_ratio_series", "extract_time_series",
     "extract_speed_series", "extract_format_efficiency_series",
     "extract_algorithm_effectiveness_series", "extract_final_cr_series"}

\* The extraction of the state, made on the collection rs.
RerunPaper(rs) ==
    CASE call.fn = "extract_algorithm_effectiveness_series" ->
             extract_algorithm_effectiveness_series(
                 rs, call.dataset, call.compressor, call.method)
      [] OTHER -> RerunMetric(rs)

\* Every dataset has reference records of at most one family.
SingleReferenceFamily(rs) ==
    \A d \in Datasets :
        \E fam \in ReferenceFamilies :
            \A i \in References(rs, d) : rs[i].compressor = fam

Permuted(rs, p) == [i \in Indices(rs) |-> rs[p[i]]]

\* C26: with unique (dataset, batch_size, compressor) triples and a single
\* reference family per dataset, every extraction of paper_plots.py (ratio,
\* time, end-to-end speed, format efficiency, algorithm effectiveness, final
\* CR) returns the same result for every permutation of the input records.
C26_PermutationInvariant ==
    (/\ call.fn \in PaperExtractorFns
     /\ UniqueTriples(results)
     /\ SingleReferenceFamily(results))
    => \A p \in Permutations(Indices(results)) :
           RerunPaper(Permuted(results, p)) = ret

\* Two records of the extracted variant given in descending batch-size order:
\* the call returns two points, as it does on the ascending order.
C26_Witness ==
    /\ call.fn \in PaperExtractorFns
    /\ UniqueTriples(results)
    /\ SingleReferenceFamily(results)
    /\ Len(results) = 2
    /\ results[1].batch_size > results[2].batch_size
    /\ ~ret.raised /\ Len(ret.batch_sizes) = 2
    /\ RerunPaper(<<results[2], results[1]>>) = ret

\* A reference record and a derived record in either order give the same
\* baseline-relative point.
C26_BaselineWitness ==
    /\ call.fn \in {"extract_speed_series", "extract_final_cr_series"}
    /\ call.compressor = "otap"
    /\ UniqueTriples(results)
    /\ SingleReferenceFamily(results)
    /\ Len(results) = 2
    /\ results[1].compressor = "otap"
    /\ results[2].compressor \in ReferenceFamilies
    /\ ~ret.raised /\ Len(ret.batch_sizes) = 1
    /\ RerunPaper(<<results[2], results[1]>>) = ret

(***************************************************************************)
(* The two end-to-end speed extractors over records whose stored           *)
(* throughput is the one the benchmark computes from the record's own      *)
(* bytes and average time.                                                 *)
(***************************************************************************)

\* throughput_mbps = own_uncompressed_bytes / avg_ms / 1000
ThroughputOf(bytes, avg_ms) == Rat(bytes, avg_ms * 1000)

\* An AlgorithmResult timed on a record of the given byte count, a multiple
\* of 4000, in 2 ms and 4 ms: the stored throughputs are whole numbers.
Timed(bytes) ==
    [total_bytes |-> 200, compression_ratio |-> Rat(bytes, 200),
     compression |-> Stats(2, 1, bytes \div 2000, 3),
     decompression |-> Stats(4, 2, bytes \div 4000, 5)]

\* Records with a consistent throughput, and four without: one lacking the
\* method, one with a throughput of other bytes, one of zero average time
\* and one of zero bytes.
SpeedRecords ==
    UNION {Records({"d1"}, {"otlp_metrics", "tpch_proto", "otap", "arrow"},
                   BatchSizes, {ub}, Present("zstd", {Timed(ub)}), Absent)
           : ub \in {4000, 8000}}
    \cup Records({"d1"}, {"otap"}, {100}, {4000},
                 Optional("zstd", {Zstd200, ZstdInstant}), Absent)
    \cup Records({"d1"}, {"otap"}, {100}, {0}, Present("zstd", {Zstd200}), Absent)

InitSpeed == results \in SeqsUpTo(SpeedRecords, MaxRecords) /\ NotCalled

NextSpeed ==
    \/ ExtractSpeedSeries
    \/ VizExtractE2eSpeedSeries

SpecSpeed == InitSpeed /\ [][NextSpeed]_vars

E2eSpeedFns == {"extract_speed_series", "viz_extract_e2e_speed_series"}

PaperSpeedOfCall ==
    extract_speed_series(results, call.dataset, call.compressor, call.method,
                         call.time_type)

VizSpeedOfCall ==
    viz_extract_e2e_speed_series(GroupOf(results, call.dataset), call.compressor,
                                 call.method, call.time_type)

\* The dataset has one reference family and a reference record at every
\* batch size of its records.
ReferenceAtEveryBatch ==
    /\ \E fam \in ReferenceFamilies :
           \A i \in References(results, call.dataset) : results[i].compressor = fam
    /\ \A i \in Indices(results) :
           results[i].dataset = call.dataset
           => ReferencesAt(results, call.dataset, results[i].batch_size,
                           ReferenceFamilies) # {}

\* Every matching record has the method, positive bytes, a positive average
\* time and the throughput computed from its own bytes and that time.
ConsistentThroughput ==
    \A i \in Matching(results, call.dataset, call.compressor) :
        /\ call.method \in DOMAIN results[i]
        /\ results[i].total_uncompressed_bytes > 0
        /\ results[i][call.method][call.time_type].avg_ms > 0
        /\ ToRat(results[i][call.method][call.time_type].throughput_mbps)
           = ThroughputOf(results[i].total_uncompressed_bytes,
                          results[i][call.method][call.time_type].avg_ms)

SpeedsAgree ==
    /\ ~VizSpeedOfCall.raised /\ ~PaperSpeedOfCall.raised
    /\ VizSpeedOfCall.batch_sizes = PaperSpeedOfCall.batch_sizes
    /\ VizSpeedOfCall.values = PaperSpeedOfCall.values

\* C27: the two end-to-end speed implementations agree: in a dataset with one
\* reference family and a reference record at every batch size, where every
\* matching record has the method, positive own bytes, avg_ms > 0 and
\* throughput_mbps = own bytes / avg_ms / 1000,
\* visualize_batch_size.extract_e2e_speed_series and
\* paper_plots.extract_speed_series return the same batch sizes and speeds.
C27_Original ==
    (/\ call.fn \in E2eSpeedFns
     /\ ReferenceAtEveryBatch
     /\ ConsistentThroughput)
    => SpeedsAgree

\* The reference family visualize_batch_size reads for a variant.
VizFamilyOf(compressor) ==
    IF compressor \in {"tpch_proto"} \cup ArrowVariants
    THEN {"tpch_proto"} ELSE OtlpFamilies

\* What the code does: the two agree when the dataset's reference family is
\* the one the visualize extractor reads for the variant.
E2eAgreementLemma ==
    (/\ call.fn \in E2eSpeedFns
     /\ ReferenceAtEveryBatch
     /\ ConsistentThroughput
     /\ \A i \in References(results, call.dataset) :
            results[i].compressor \in VizFamilyOf(call.compressor))
    => /\ SpeedsAgree
       /\ ret.batch_sizes = PaperSpeedOfCall.batch_sizes
       /\ ret.values = PaperSpeedOfCall.values

\* The lemma's case occurs: a derived record under a reference record of
\* other bytes, one point returned.
E2eAgreementReached ==
    /\ call.fn \in E2eSpeedFns
    /\ call.compressor \in DerivedVariants
    /\ ReferenceAtEveryBatch
    /\ ConsistentThroughput
    /\ Len(results) = 2
    /\ results[1].total_uncompressed_bytes # results[2].total_uncompressed_bytes
    /\ Len(ret.batch_sizes) = 1
    /\ SpeedsAgree

(***************************************************************************)
(* scripts/train_compressors.py                                            *)
(*                                                                         *)
(* files is the part of the file system the script touches: whether        *)
(* data/generated and protobuf_cli exist, the payload files of the         *)
(* discovered folders of each schema, and the node at data/<schema>.       *)
(* train is the frame of main: its position, loop index, counters and the  *)
(* steps it has run.  A file name is kept as the text before the digits,   *)
(* the digits and the extension, so that the glob payload_*.bin and the    *)
(* format payload_{i:04d}.bin are computed rather than assumed.            *)
(***************************************************************************)

\* num_files of sample_files_for_schema (100 in main), scaled down.
NumFiles == 2

OTEL_SCHEMAS == <<"otap", "otlp_metrics", "otlp_traces", "otlpmetricsdict">>

TPCH_SCHEMAS == <<"tpch_proto">>

ALL_SCHEMAS == OTEL_SCHEMAS \o TPCH_SCHEMAS

Schemas == {ALL_SCHEMAS[k] : k \in 1..Len(ALL_SCHEMAS)}

\* None is <<>>, a list of schemas l is <<l>>: an unknown name exits.
get_schemas_to_train(schema_arg) ==
    IF schema_arg = "all" THEN <<ALL_SCHEMAS>>
    ELSE IF schema_arg = "otel" THEN <<OTEL_SCHEMAS>>
    ELSE IF schema_arg = "tpch" THEN <<TPCH_SCHEMAS>>
    ELSE IF schema_arg \in Schemas THEN << <<schema_arg>> >>
    ELSE <<>>

Name(prefix, body, suffix) == [prefix |-> prefix, body |-> body, suffix |-> suffix]

PayloadName(body) == Name("payload_", body, ".bin")

TrainedZlc == Name("trained", <<>>, ".zlc")

\* schema_dir.glob("payload_*.bin")
glob_payload(name) == name.prefix = "payload_" /\ name.suffix = ".bin"

\* The decimal digits of i >= 0.
RECURSIVE Digits(_)
Digits(i) == IF i < 10 THEN <<i>> ELSE Append(Digits(i \div 10), i % 10)

\* Format specification 0<width>d: zeros on the left up to the width, longer
\* numbers unchanged.
ZeroPad(ds, width) ==
    IF Len(ds) >= width THEN ds
    ELSE [k \in 1..width |->
            IF k <= width - Len(ds) THEN 0 ELSE ds[k - (width - Len(ds))]]

\* f"payload_{i:04d}.bin"
dest_name(i) == PayloadName(ZeroPad(Digits(i), 4))

\* A node of the file system: nothing, a regular file, or a directory with
\* entries, each a regular file of some content or a subdirectory.
AbsentNode == [kind |-> "absent", entries |-> <<>>]

FileNode == [kind |-> "file", entries |-> <<>>]

Dir(entries) == [kind |-> "dir", entries |-> entries]

FileEntry(content) == [kind |-> "file", content |-> content]

DirEntry == [kind |-> "dir", content |-> "-"]

Remove(entries, names) == [n \in DOMAIN entries \ names |-> entries[n]]

Put(entries, name, entry) ==
    [n \in DOMAIN entries \cup {name} |-> IF n = name THEN entry ELSE entries[n]]

\* A path handed to shutil.copy2: a file outside the schema directory, known
\* by its content, or a name inside the schema directory.
Outside(content) ==
    [in_schema_dir |-> FALSE, name |-> Name("-", <<>>, "-"), content |-> content]

Inside(name) == [in_schema_dir |-> TRUE, name |-> name, content |-> "-"]

\* The content copy2 reads, <<>> when the source is not a readable file.
read_source(entries, src) ==
    IF ~src.in_schema_dir THEN <<src.content>>
    ELSE IF src.name \in DOMAIN entries /\ entries[src.name].kind = "file"
    THEN <<entries[src.name].content>>
    ELSE <<>>

\* The copy loop of lines 131-134 over the first n sampled files; it stops
\* at the first source that cannot be read.
RECURSIVE copy_files(_, _, _)
copy_files(entries, sampled_files, n) ==
    IF n = 0 THEN [raised |-> FALSE, entries |-> entries]
    ELSE LET prev == copy_files(entries, sampled_files, n - 1)
             src == read_source(prev.entries, sampled_files[n])
         IN  IF prev.raised THEN prev
             ELSE IF src = <<>> THEN [raised |-> TRUE, entries |-> prev.entries]
             ELSE [raised |-> FALSE,
                   entries |-> Put(prev.entries, dest_name(n - 1),
                                   FileEntry(src[1]))]

\* Mutant: the clean-up loop finds nothing to unlink.
existing_payloads_none(entries) == {}

\* The names the clean-up loop of lines 126-127 visits.
existing_payloads(entries) == {n \in DOMAIN entries : glob_payload(n)}

\* The outcomes of prepare_schema_train_dir on the node at data/<schema>.
\* mkdir(exist_ok=True) raises when the path is a regular file; unlink raises
\* on a subdirectory, after any of the matching files was unlinked (the glob
\* visits them in directory order).
prepare_schema_train_dir(node, sampled_files) ==
    IF node.kind = "file" THEN {[raised |-> TRUE, node |-> node]}
    ELSE LET entries == node.entries
             existing == existing_payloads(entries)
             subdirs == {n \in existing : entries[n].kind = "dir"}
             copied == copy_files(Remove(entries, existing), sampled_files,
                                  Len(sampled_files))
         IN  IF subdirs # {}
             THEN {[raised |-> TRUE, node |-> Dir(Remove(entries, unlinked))] :
                      unlinked \in SUBSET (existing \ subdirs)}
             ELSE {[raised |-> copied.raised, node |-> Dir(copied.entries)]}

\* all_payloads of sample_files_for_schema: the payload files of the folders.
RECURSIVE all_payloads(_)
all_payloads(folders) ==
    IF folders = <<>> THEN <<>>
    ELSE all_payloads(SubSeq(folders, 1, Len(folders) - 1)) \o folders[Len(folders)]

\* random.sample(all_payloads, sample_size): sample_size distinct positions in
\* any order; the empty set when ValueError is raised for want of payloads.
sample_files_for_schema(folders, num_files) ==
    LET payloads == all_payloads(folders)
        sample_size == IF num_files < Len(payloads) THEN num_files ELSE Len(payloads)
    IN  IF payloads = <<>> THEN {}
        ELSE {[k \in 1..sample_size |-> payloads[pos[k]]] :
                 pos \in {q \in [1..sample_size -> 1..Len(payloads)] :
                             \A i, j \in 1..sample_size : q[i] = q[j] => i = j}}

\* What subprocess.run does: return code 0, another return code, or OSError.
ToolOutcomes == {"zero", "nonzero", "oserror"}

\* The outcomes of train_compressor on a training directory: "not_found"
\* (protobuf_cli missing), "no_payloads", or the tool's outcome.  invoked
\* tells whether subprocess.run was reached.
train_compressor(node, cli_exists) ==
    IF ~cli_exists THEN {[raised |-> TRUE, invoked |-> FALSE]}
    ELSE IF existing_payloads(node.entries) = {}
    THEN {[raised |-> TRUE, invoked |-> FALSE]}
    ELSE {[raised |-> o # "zero", invoked |-> TRUE] : o \in ToolOutcomes}

\* ---- main

\* A step main ran for a schema and whether it returned; the step "tool" is
\* the subprocess.run of train_compressor.
Event(schema, step, ok) == [schema |-> schema, step |-> step, ok |-> ok]

Frame0(schema_arg) ==
    [pc |-> "start", schema_arg |-> schema_arg, schema_list |-> <<>>, i |-> 0,
     sampled_files |-> <<>>, success_count |-> 0, failure_count |-> 0,
     log |-> <<>>, exit_status |-> <<>>]

schema_name(t) == t.schema_list[t.i]

\* Mutant: the first failure ends the loop.
on_exception_break(t, step) ==
    [t EXCEPT !.pc = "summary", !.sampled_files = <<>>,
              !.failure_count = @ + 1,
              !.log = Append(@, Event(schema_name(t), step, FALSE))]

\* except Exception: failure_count += 1, then the next schema.
on_exception(t, step) ==
    [t EXCEPT !.pc = "for", !.i = @ + 1, !.sampled_files = <<>>,
              !.failure_count = @ + 1,
              !.log = Append(@, Event(schema_name(t), step, FALSE))]

\* Mutant: the process always exits with status 0.
exit_status_always_zero(failure_count) == 0

\* if failure_count > 0: sys.exit(1)
exit_status(failure_count) == IF failure_count > 0 THEN 1 ELSE 0

\* The folders and training directories main may find.
StaleEntries ==
    (dest_name(0) :> FileEntry("old")) @@ (dest_name(NumFiles + 5) :> FileEntry("old"))
    @@ (TrainedZlc :> FileEntry("old"))

TrainDirs ==
    {AbsentNode, FileNode, Dir(StaleEntries),
     Dir(PayloadName(<<>>) :> DirEntry)}

\* What one schema finds: no folder; folders without payloads; payloads and a
\* training directory of one of the four kinds.
SchemaCases ==
    {[folders |-> f, node |-> AbsentNode] : f \in {<<>>, << <<>> >>}}
    \cup {[folders |-> << <<"x">> >>, node |-> n] : n \in TrainDirs \ {Dir(StaleEntries)}}
    \cup {[folders |-> << <<"x">>, [k \in 1..NumFiles |-> "x"] >>,
           node |-> Dir(StaleEntries)]}

SchemaArgs == {"all", "otel", "tpch", "otlp_traces", "parquet"}

Requested(schema_arg) ==
    IF get_schemas_to_train(schema_arg) = <<>> THEN {}
    ELSE {get_schemas_to_train(schema_arg)[1][k] :
             k \in 1..Len(get_schemas_to_train(schema_arg)[1])}

InitTrain ==
    /\ results = <<>> /\ call = NoCall /\ ret = Returned(<<>>, <<>>, <<>>)
    /\ frames = <<>>
    /\ \E schema_arg \in SchemaArgs :
        /\ train = Frame0(schema_arg)
        /\ \E cases \in [Requested(schema_arg) -> SchemaCases],
              source_exists, cli_exists \in BOOLEAN :
            /\ source_exists \/ \A s \in Requested(schema_arg) :
                                    cases[s] = [folders |-> <<>>, node |-> AbsentNode]
            /\ files = [source_exists |-> source_exists,
                        cli_exists |-> cli_exists,
                        generated |-> [s \in Schemas |->
                            IF s \in Requested(schema_arg)
                            THEN cases[s].folders ELSE <<>>],
                        data |-> [s \in Schemas |->
                            IF s \in Requested(schema_arg)
                            THEN cases[s].node ELSE AbsentNode]]

\* Lines 233-267: the schema list, the source directory test, the counters.
StartMain ==
    /\ train.pc = "start"
    /\ LET schema_list == get_schemas_to_train(train.schema_arg)
       IN  IF schema_list = <<>> \/ ~files.source_exists
           THEN train' = [train EXCEPT !.pc = "exited", !.exit_status = <<1>>]
           ELSE train' = [train EXCEPT !.pc = "for", !.i = 1,
                                       !.schema_list = schema_list[1]]
    /\ UNCHANGED <<results, call, ret, frames, files>>

\* Lines 269-277: the next schema of the list, skipped when it has no folder.
ForSchema ==
    /\ train.pc = "for"
    /\ IF train.i > Len(train.schema_list)
       THEN train' = [train EXCEPT !.pc = "summary"]
       ELSE IF files.generated[schema_name(train)] = <<>>
       THEN train' = [train EXCEPT !.i = @ + 1,
                         !.log = Append(@, Event(schema_name(train), "skip", TRUE))]
       ELSE train' = [train EXCEPT !.pc = "sample"]
    /\ UNCHANGED <<results, call, ret, frames, files>>

\* Line 281.
SampleStep ==
    /\ train.pc = "sample"
    /\ LET samples == sample_files_for_schema(
                          files.generated[schema_name(train)], NumFiles)
       IN  IF samples = {} THEN train' = on_exception(train, "sample")
           ELSE \E sampled \in samples :
                   train' = [train EXCEPT !.pc = "prepare",
                       !.sampled_files = [k \in 1..Len(sampled) |->
                                             Outside(sampled[k])],
                       !.log = Append(@, Event(schema_name(train), "sample", TRUE))]
    /\ UNCHANGED <<results, call, ret, frames, files>>

\* Line 284.
PrepareStep ==
    /\ train.pc = "prepare"
    /\ \E o \in prepare_schema_train_dir(files.data[schema_name(train)],
                                         train.sampled_files) :
        /\ files' = [files EXCEPT !.data[schema_name(train)] = o.node]
        /\ train' = IF o.raised THEN on_exception(train, "prepare")
                    ELSE [train EXCEPT !.pc = "train", !.sampled_files = <<>>,
                             !.log = Append(@, Event(schema_name(train),
                                                     "prepare", TRUE))]
    /\ UNCHANGED <<results, call, ret, frames>>

\* Lines 287-291.  A run of the tool that returns 0 leaves trained.zlc.
TrainStep ==
    /\ train.pc = "train"
    /\ \E o \in train_compressor(files.data[schema_name(train)], files.cli_exists) :
        /\ files' = IF o.raised THEN files
                    ELSE [files EXCEPT !.data[schema_name(train)] =
                             Dir(Put(@.entries, TrainedZlc, FileEntry("trained")))]
        /\ train' = IF o.raised
                    THEN on_exception(train, IF o.invoked THEN "tool" ELSE "train")
                    ELSE [train EXCEPT !.pc = "for", !.i = @ + 1,
                             !.success_count = @ + 1,
                             !.log = Append(@, Event(schema_name(train), "tool", TRUE))]
    /\ UNCHANGED <<results, call, ret, frames>>

\* Lines 299-314.
Summary ==
    /\ train.pc = "summary"
    /\ train' = [train EXCEPT !.pc = "exited",
                              !.exit_status = <<exit_status(train.failure_count)>>]
    /\ UNCHANGED <<results, call, ret, frames, files>>

NextTrain ==
    \/ StartMain
    \/ ForSchema
    \/ SampleStep
    \/ PrepareStep
    \/ TrainStep
    \/ Summary

SpecTrain == InitTrain /\ [][NextTrain]_vars

\* The run got past the loop: it is at the summary or has exited after it.
ReachedSummary ==
    train.pc = "summary" \/ (train.pc = "exited" /\ train.i > 0)

\* The positions of the requested schemas that have a discovered folder.
WithFolders ==
    {k \in Indices(train.schema_list) : files.generated[train.schema_list[k]] # <<>>}

\* C28: when main reaches its summary, success_count + failure_count is the
\* number of requested schemas with at least one discovered folder, and the
\* process exits with status 1 exactly when failure_count > 0.
C28_CountsAndExitStatus ==
    /\ ReachedSummary
        => train.success_count + train.failure_count = Cardinality(WithFolders)
    /\ (train.pc = "exited" /\ train.i > 0)
        => (train.exit_status = <<1>> <=> train.failure_count > 0)

\* A run over several schemas, one skipped, one trained and one failed, that
\* exits with status 1.
C28_Witness ==
    /\ train.pc = "exited" /\ train.i > 0
    /\ train.success_count >= 1 /\ train.failure_count >= 1
    /\ Cardinality(WithFolders) < Len(train.schema_list)
    /\ train.exit_status = <<1>>

\* A run without failure exits with status 0.
C28_CleanExit ==
    /\ train.pc = "exited" /\ train.i > 0
    /\ train.success_count >= 2 /\ train.failure_count = 0
    /\ train.exit_status = <<0>>

PositionOf(schema) == CHOOSE k \in Indices(train.schema_list) : train.schema_list[k] = schema

StepsOf(schema) == SelectSeq(train.log, LAMBDA e : e.schema = schema)

\* What the log of one schema may be: the steps in the order sample, prepare,
\* train, each begun only after the one before returned.
StepSequences(s) ==
    {<<>>, <<Event(s, "skip", TRUE)>>, <<Event(s, "sample", FALSE)>>,
     <<Event(s, "sample", TRUE)>>,
     <<Event(s, "sample", TRUE), Event(s, "prepare", FALSE)>>,
     <<Event(s, "sample", TRUE), Event(s, "prepare", TRUE)>>,
     <<Event(s, "sample", TRUE), Event(s, "prepare", TRUE), Event(s, "train", FALSE)>>,
     <<Event(s, "sample", TRUE), Event(s, "prepare", TRUE), Event(s, "tool", FALSE)>>,
     <<Event(s, "sample", TRUE), Event(s, "prepare", TRUE), Event(s, "tool", TRUE)>>}

\* C29: main processes the schemas in list order and, for each, runs sample,
\* prepare directory, train in that order; the training tool is never invoked
\* for a schema whose sampling or preparation failed, and a failure in one
\* schema does not keep the remaining schemas from being processed.
C29_StepOrder ==
    train.pc \notin {"start"}
    => /\ \A p, q \in Indices(train.log) :
              p < q => PositionOf(train.log[p].schema)
                         <= PositionOf(train.log[q].schema)
       /\ \A s \in Schemas : StepsOf(s) \in StepSequences(s)
       /\ \A q \in Indices(train.log) :
              train.log[q].step = "tool"
              => \A p \in 1..(q - 1) :
                     train.log[p].schema = train.log[q].schema => train.log[p].ok
       /\ ReachedSummary
            => \A k \in Indices(train.schema_list) :
                   LET steps == StepsOf(train.schema_list[k])
                   IN  /\ steps # <<>>
                       /\ k \in WithFolders => steps[1].step = "sample"
                       /\ steps[Len(steps)].ok => steps[Len(steps)].step \in {"skip", "tool"}

\* A schema whose preparation failed is followed by a schema that is trained.
C29_Witness ==
    /\ ReachedSummary
    /\ \E p, q \in Indices(train.log) :
        /\ p < q
        /\ train.log[p] = Event(train.log[p].schema, "prepare", FALSE)
        /\ train.log[q] = Event(train.log[q].schema, "tool", TRUE)
        /\ train.log[p].schema # train.log[q].schema

(***************************************************************************)
(* prepare_schema_train_dir alone, on any training directory.              *)
(***************************************************************************)

\* The names a training directory may hold before the call.
PriorNames ==
    {dest_name(0), dest_name(1), dest_name(NumFiles + 5), PayloadName(<<7>>),
     TrainedZlc}

PriorEntries ==
    UNION {[names -> {FileEntry("old"), DirEntry}] : names \in SUBSET PriorNames}

\* The paths a caller may hand over.
SampledPaths ==
    {Outside("a"), Outside("b"), Inside(TrainedZlc), Inside(dest_name(0))}

InitPrepare ==
    /\ results = <<>> /\ call = NoCall /\ ret = Returned(<<>>, <<>>, <<>>)
    /\ frames = <<>> /\ train = <<>>
    /\ \E node \in {AbsentNode, FileNode} \cup {Dir(e) : e \in PriorEntries} :
        files = [source_exists |-> TRUE, cli_exists |-> TRUE,
                 generated |-> [s \in Schemas |-> <<>>],
                 data |-> [s \in Schemas |-> IF s = "otap" THEN node ELSE AbsentNode]]

\* call.arg keeps the arguments and the directory as the call found it.
PrepareSchemaTrainDir ==
    /\ Idle
    /\ \E sampled_files \in SeqsUpTo(SampledPaths, NumFiles) :
       \E o \in prepare_schema_train_dir(files.data["otap"], sampled_files) :
        /\ call' = Call("prepare_schema_train_dir", "-", "otap", "-", "-",
                        [sampled_files |-> sampled_files,
                         before |-> files.data["otap"]])
        /\ ret' = [raised |-> o.raised]
        /\ files' = [files EXCEPT !.data["otap"] = o.node]
        /\ UNCHANGED <<results, frames, train>>

NextPrepare == PrepareSchemaTrainDir

SpecPrepare == InitPrepare /\ [][NextPrepare]_vars

\* payload_0000.bin .. payload_9999.bin written digit by digit.
FourDigitName(k) ==
    PayloadName(<<(k \div 1000) % 10, (k \div 100) % 10, (k \div 10) % 10, k % 10>>)

Prepared == call.fn = "prepare_schema_train_dir"

AllOutside ==
    \A k \in Indices(call.arg.sampled_files) : ~call.arg.sampled_files[k].in_schema_dir

\* C30: after prepare_schema_train_dir returns for n sampled files from
\* outside the schema directory, the entries of the directory that match
\* payload_*.bin are exactly payload_0000.bin .. payload_(n-1).bin, each a copy
\* of its sampled file, whatever payload files were there before; the entries
\* that do not match are as they were.
C30_PayloadsExactlySampled ==
    (Prepared /\ ~ret.raised /\ AllOutside)
    => LET after == files.data["otap"].entries
           before == call.arg.before.entries
           sampled_files == call.arg.sampled_files
       IN  /\ files.data["otap"].kind = "dir"
           /\ {n \in DOMAIN after : glob_payload(n)}
              = {FourDigitName(k - 1) : k \in Indices(sampled_files)}
           /\ \A k \in Indices(sampled_files) :
                  after[FourDigitName(k - 1)] = FileEntry(sampled_files[k].content)
           /\ {n \in DOMAIN after : ~glob_payload(n)}
              = {n \in DOMAIN before : ~glob_payload(n)}
           /\ \A n \in DOMAIN before : ~glob_payload(n) => after[n] = before[n]

\* A directory that held payload_0000.bin, a payload beyond the sample,
\* payload_7.bin and trained.zlc holds the two sampled payloads and
\* trained.zlc after the call.
C30_Witness ==
    /\ Prepared /\ ~ret.raised /\ AllOutside
    /\ Len(call.arg.sampled_files) = 2
    /\ DOMAIN call.arg.before.entries
       = {dest_name(0), dest_name(NumFiles + 5), PayloadName(<<7>>), TrainedZlc}
    /\ DOMAIN files.data["otap"].entries
       = {FourDigitName(0), FourDigitName(1), TrainedZlc}
    /\ files.data["otap"].entries[FourDigitName(0)] = FileEntry("a")
    /\ files.data["otap"].entries[FourDigitName(1)] = FileEntry("b")

\* Files that do not match the glob are untouched even when the call raises.
UntouchedLemma ==
    (Prepared /\ call.arg.before.kind = "dir")
    => \A n \in DOMAIN call.arg.before.entries :
           ~glob_payload(n)
           => /\ n \in DOMAIN files.data["otap"].entries
              /\ files.data["otap"].entries[n] = call.arg.before.entries[n]

\* The format of line 133 over the whole range of four-digit indices, and
\* the first index beyond it; evaluated in the one initial state without a
\* training directory.
PayloadNameFormatLemma ==
    (call = NoCall /\ files.data["otap"] = AbsentNode)
    => /\ \A i \in 0..9999 : dest_name(i) = FourDigitName(i)
       /\ dest_name(10000) = PayloadName(<<1, 0, 0, 0, 0>>)

====
